---- MODULE Spec2Model ----
(***************************************************************************)
(* python-cloud-server: the metadata index (MetadataManager, metadata.py)  *)
(* and the storage coordinator (CloudServer, server.py).                   *)
(*                                                                         *)
(* Spec      the request handlers post_file / patch_file / delete_file /   *)
(*           get_file, one request at a time, each a whole handler with    *)
(*           the I/O failures it can meet as inputs.                        *)
(* SaveSpec  _save_metadata_atomic step by step (open temp, write, close,  *)
(*           replace), with a process crash possible between any two steps *)
(*           and a restart that loads the canonical file again.            *)
(* UploadSpec  two post_file coroutines for one path, interleaved at their *)
(*           awaits.                                                       *)
(* PatchSpec the handlers with their failures, one-byte uploads.           *)
(* OrderSpec the index with the order of its insertions written down.      *)
(* LockSpec  threads calling the index again and again; LockFairSpec adds  *)
(*           fair scheduling.                                              *)
(***************************************************************************)
EXTENDS Integers, Sequences, FiniteSets, TLC

VARIABLES
    metadata,   \* MetadataManager._metadata: insertion-ordered dict, a sequence of entries
    snapshot,   \* content of the canonical metadata file (metadata_filepath)
    tmpfile,    \* content of the temporary file (.tmp), or NoFile
    disk,       \* regular files under storage_directory: location -> size in bytes
    dirs,       \* sub-directories that exist under storage_directory
    clock,      \* wall clock read by FileMetadata.current_timestamp (it stands still in Spec)
    resp,       \* the response of the last completed request
    faults,     \* number of I/O failures met so far
    pc,         \* SaveSpec: position inside _save_metadata_atomic
    call        \* SaveSpec: the save in progress (the texts before and after, what is left to write)

vars == <<metadata, snapshot, tmpfile, disk, dirs, clock, resp, faults, pc, call>>

---------------------------------------------------------------------------
(* Configuration (StorageConfig), a small instance, and the model's bounds *)

MaxFileSize == 1        \* max_file_size_mb * BYTES_TO_MB
UploadChunkSize == 2    \* upload_chunk_size_kb * 1024
MaxTagsPerFile == 1     \* max_tags_per_file
MaxTagLength == 1       \* max_tag_length

MaxChunks == 2          \* an upload arrives in at most MaxChunks reads
MaxFaults == 1          \* at most MaxFaults I/O failures in one behaviour

Paths == {"a.txt", "d/b.txt"}
NoPath == ""            \* PatchFileRequest.new_filepath = None (or empty: both falsy)
NoFile == [entries |-> <<>>, closed |-> FALSE, exists |-> FALSE]

\* The sequence of chunk lengths that successive file.read(chunk_size) calls return.
Streams == UNION {[1..n -> 1..UploadChunkSize] : n \in 0..MaxChunks}

\* UploadFile.content_type as the client declares it: here always the generic type
ContentTypes == {"application/octet-stream"}

---------------------------------------------------------------------------
(* Paths and the filesystem *)

\* storage_directory / filepath: the location a path names on disk. pathlib drops
\* empty components, so "d//b.txt" names the location of "d/b.txt".
Loc(p) == IF p = "d//b.txt" THEN "d/b.txt" ELSE p

\* full_path.parent, relative to storage_directory ("." is the storage directory).
Parent(p) == IF Loc(p) = "d/b.txt" THEN "d" ELSE "."

\* Path.mkdir(parents=True, exist_ok=True) of the parent of p.
Mkdir(ds, p) == IF Parent(p) = "." THEN ds ELSE ds \cup {Parent(p)}

\* Path.exists
Exists(d, p) == Loc(p) \in DOMAIN d

\* Path.unlink(missing_ok=True)
Unlink(d, p) == [l \in DOMAIN d \ {Loc(p)} |-> d[l]]

\* writing a file of n bytes at p (open "wb" truncates what was there)
WriteFile(d, p, n) == [l \in DOMAIN d \cup {Loc(p)} |-> IF l = Loc(p) THEN n ELSE d[l]]

\* Path.rename(old, new) on POSIX: replaces an existing file at new
Rename(d, p, q) ==
    IF Loc(p) = Loc(q) THEN d
    ELSE [l \in (DOMAIN d \ {Loc(p)}) \cup {Loc(q)} |-> IF l = Loc(q) THEN d[Loc(p)] ELSE d[l]]

\* mimetypes.guess_type(filepath)[0], "" for None
GuessType(p) == IF p \in {"a.txt", "d/b.txt", "d//b.txt"} THEN "text/plain" ELSE ""

---------------------------------------------------------------------------
(* FileMetadata and the in-memory mapping *)

FileMetadata(fp, mt, sz, tg, up, upd) ==
    [filepath |-> fp, mime_type |-> mt, size |-> sz, tags |-> tg,
     uploaded_at |-> up, updated_at |-> upd]

\* FileMetadata.new_current_instance: both timestamps are one reading of the clock
new_current_instance(fp, mt, sz, tg, now) == FileMetadata(fp, mt, sz, tg, now, now)

\* one item of the dict: key and value
Entry(k, v) == [key |-> k, val |-> v]

Keys(md) == {md[i].key : i \in 1..Len(md)}

IndexOf(md, k) == CHOOSE i \in 1..Len(md) : md[i].key = k

\* MetadataManager._file_exists
_file_exists(md, k) == k \in Keys(md)

\* MetadataManager.get_file_entry (only called here for a present key)
get_file_entry(md, k) == md[IndexOf(md, k)].val

\* del d[k] / d.pop(k)
DictDel(md, k) == SelectSeq(md, LAMBDA e : e.key # k)

\* d[k] = v: in place when k is present, at the end otherwise
DictSet(md, k, v) ==
    IF k \in Keys(md)
    THEN [i \in 1..Len(md) |-> IF md[i].key = k THEN Entry(k, v) ELSE md[i]]
    ELSE Append(md, Entry(k, v))

\* json.dump({k: v.model_dump(mode="json") ...}): the complete text of the mapping
Serialize(md) ==
    [entries |-> [i \in 1..Len(md) |-> [k |-> md[i].key, v |-> md[i].val]],
     closed |-> TRUE, exists |-> TRUE]

\* json.load + model_validate of a complete text
Parse(f) == [i \in 1..Len(f.entries) |-> Entry(f.entries[i].k, f.entries[i].v)]

\* json.load succeeds only on a complete text
Parseable(f) == f.exists /\ f.closed

---------------------------------------------------------------------------
(* MetadataManager: the mutating operations, each run to its end.          *)
(* sfail names the step of _save_metadata_atomic that raises: "none",      *)
(* "tmp" (opening or writing the temporary file) or "replace".             *)

SaveFails == {"none", "tmp", "replace"}

\* Variant of the save in which a failing call has already replaced the canonical file.
_save_metadata_atomic_Replaced(md, snap, sfail) ==
    [snapshot |-> Serialize(md), tmpfile |-> NoFile, raised |-> sfail # "none"]

\* _save_metadata_atomic: on success the canonical file is the new text; when a
\* step raises the temporary file is unlinked and the canonical file is as before.
_save_metadata_atomic(md, snap, sfail) ==
    IF sfail = "none"
    THEN [snapshot |-> Serialize(md), tmpfile |-> NoFile, raised |-> FALSE]
    ELSE [snapshot |-> snap, tmpfile |-> NoFile, raised |-> TRUE]

\* add_file_entry, the in-memory step: self._metadata[filepath] = file_metadata
AddEntry(md, file_metadata) == DictSet(md, file_metadata.filepath, file_metadata)

\* delete_file_entry, the in-memory step: del self._metadata[filepath]
DeleteEntry(md, filepath) == DictDel(md, filepath)

\* Variant of update_file_entry that stores the record under the new key and leaves
\* the old key in place.
UpdateEntry_KeepOldKey(md, filepath, updates, now) ==
    LET old == get_file_entry(md, filepath)
        v == [old EXCEPT !.tags = updates.tags,
                         !.filepath = IF updates.filepath # NoPath
                                      THEN updates.filepath ELSE @,
                         !.updated_at = now]
    IN  DictSet(DictSet(md, filepath, v),
                IF updates.filepath # NoPath THEN updates.filepath ELSE filepath, v)

\* Variant of update_file_entry that moves the record to the new key and leaves the
\* old path in its filepath field.
UpdateEntry_StaleField(md, filepath, updates, now) ==
    LET old == get_file_entry(md, filepath)
        v == [old EXCEPT !.tags = updates.tags, !.updated_at = now]
        md1 == DictSet(md, filepath, v)
    IN  IF updates.filepath # NoPath /\ updates.filepath # filepath
        THEN DictSet(DictDel(md1, filepath), updates.filepath, v)
        ELSE md1

\* update_file_entry, the in-memory steps: merge the updates into the record, refresh
\* updated_at, and move the record to the new key when the updates carry another
\* filepath. updates is the dict {"tags": ..., "filepath": ...}; updates.filepath =
\* NoPath stands for a dict without the "filepath" key.
UpdateEntry(md, filepath, updates, now) ==
    LET old == get_file_entry(md, filepath)
        v == [old EXCEPT !.tags = updates.tags,
                         !.filepath = IF updates.filepath # NoPath
                                      THEN updates.filepath ELSE @,
                         !.updated_at = now]
        md1 == DictSet(md, filepath, v)
    IN  IF updates.filepath # NoPath /\ updates.filepath # filepath
        THEN DictSet(DictDel(md1, filepath), updates.filepath, v)
        ELSE md1

\* what a call of the index leaves: the mapping, the canonical file, and whether it raised
\* saved tells whether _save_metadata_atomic was called, error names the exception
IndexResult(md, s) == [metadata |-> md, snapshot |-> s.snapshot, raised |-> s.raised, saved |-> TRUE, error |-> IF s.raised THEN "OSError" ELSE "none"]

\* Variant of the raise on a failed key test that writes the snapshot first.
Raised_AfterSave(md, snap, error) == [metadata |-> md, snapshot |-> Serialize(md), raised |-> TRUE, saved |-> TRUE, error |-> error]

\* the key test of a call fails: it raises before anything is touched
Raised(md, snap, error) == [metadata |-> md, snapshot |-> snap, raised |-> TRUE, saved |-> FALSE, error |-> error]

\* MetadataManager.add_file_entry
add_file_entry(md, snap, file_metadata, sfail) ==
    IF _file_exists(md, file_metadata.filepath)
    THEN Raised(md, snap, "ValueError")
    ELSE IndexResult(AddEntry(md, file_metadata),
                     _save_metadata_atomic(AddEntry(md, file_metadata), snap, sfail))

\* MetadataManager.delete_file_entry
delete_file_entry(md, snap, filepath, sfail) ==
    IF ~_file_exists(md, filepath)
    THEN Raised(md, snap, "KeyError")
    ELSE IndexResult(DeleteEntry(md, filepath),
                     _save_metadata_atomic(DeleteEntry(md, filepath), snap, sfail))

\* MetadataManager.update_file_entry
update_file_entry(md, snap, filepath, updates, now, sfail) ==
    IF ~_file_exists(md, filepath)
    THEN Raised(md, snap, "KeyError")
    ELSE IndexResult(UpdateEntry(md, filepath, updates, now),
                     _save_metadata_atomic(UpdateEntry(md, filepath, updates, now), snap,
                                           sfail))

---------------------------------------------------------------------------
(* CloudServer: the request handlers. Each *_result operator is the whole  *)
(* handler as a function of the state it starts in and of its inputs:      *)
(* the stores it leaves and the response it returns. fail names the I/O    *)
(* step that raises ("none": no step does); hit tells whether the handler  *)
(* reached that step.                                                      *)

Response(op, fp, code, rpath, rtags) ==
    [op |-> op, filepath |-> fp, code |-> code, rpath |-> rpath, rtags |-> rtags]

Result(md, snap, d, ds, code, rpath, rtags, hit) ==
    [metadata |-> md, snapshot |-> snap, disk |-> d, dirs |-> ds, code |-> code,
     rpath |-> rpath, rtags |-> rtags, hit |-> hit]

\* the step of _save_metadata_atomic a handler's failure input stands for
SaveFail(fail) ==
    IF fail = "save_tmp" THEN "tmp"
    ELSE IF fail \in {"save_replace", "save_and_rollback"} THEN "replace"
    ELSE "none"

\* Variant of the size check that also refuses a file of exactly the maximum size.
TooLarge_AtLimit(file_size) == file_size >= MaxFileSize

\* post_file: "if file_size > max_file_size_mb * BYTES_TO_MB"
TooLarge(file_size) == file_size > MaxFileSize

\* the cumulative size of a stream: what "file_size += len(chunk)" adds up to
RECURSIVE Total(_)
Total(stream) == IF stream = <<>> THEN 0 ELSE Head(stream) + Total(Tail(stream))

\* Variant of the upload loop without the size check: every chunk is written.
StreamToDisk_Unchecked(stream, i, file_size, fail) ==
    IF fail = "write" /\ stream # <<>>
    THEN [status |-> "error", file_size |-> Head(stream)]
    ELSE [status |-> "written", file_size |-> Total(stream)]

\* The upload loop of post_file from chunk i on: the running total is checked
\* before the chunk is written. fail = "write" makes the first f.write raise.
RECURSIVE StreamToDisk(_, _, _, _)
StreamToDisk(stream, i, file_size, fail) ==
    IF i > Len(stream) THEN [status |-> "written", file_size |-> file_size]
    ELSE IF TooLarge(file_size + stream[i])
    THEN [status |-> "too_large", file_size |-> file_size + stream[i]]
    ELSE IF fail = "write" THEN [status |-> "error", file_size |-> file_size + stream[i]]
    ELSE StreamToDisk(stream, i + 1, file_size + stream[i], fail)

PostFails == {"none", "open", "write", "save_tmp", "save_replace"}

\* Variant of post_file without the duplicate check.
AlreadyExists_Never(md, filepath) == FALSE

\* post_file: "if self.metadata_manager._file_exists(filepath)"
AlreadyExists(md, filepath) == _file_exists(md, filepath)

\* CloudServer.post_file
post_file_result(md, snap, d, ds, now, filepath, stream, content_type, fail) ==
    IF AlreadyExists(md, filepath)
    THEN Result(md, snap, d, ds, "CONFLICT", filepath, {}, FALSE)
    ELSE LET mime_type ==
                 IF content_type = "application/octet-stream" /\ GuessType(filepath) # ""
                 THEN GuessType(filepath) ELSE content_type
             ds2 == Mkdir(ds, filepath)
             w == IF fail = "open" THEN [status |-> "error", file_size |-> 0]
                  ELSE StreamToDisk(stream, 1, 0, fail)
             fm == new_current_instance(filepath, mime_type, w.file_size, {}, now)
             a == add_file_entry(md, snap, fm, SaveFail(fail))
         IN  IF w.status = "too_large"
             THEN Result(md, snap, Unlink(d, filepath), ds2, "BAD_REQUEST", filepath, {},
                         FALSE)
             ELSE IF w.status = "error"
             THEN Result(md, snap, Unlink(d, filepath), ds2, "INTERNAL_SERVER_ERROR",
                         filepath, {}, TRUE)
             ELSE IF a.raised
             THEN Result(a.metadata, a.snapshot, Unlink(d, filepath), ds2,
                         "INTERNAL_SERVER_ERROR", filepath, {}, TRUE)
             ELSE Result(a.metadata, a.snapshot, WriteFile(d, filepath, w.file_size), ds2,
                         "OK", filepath, {}, FALSE)

DeleteFails == {"none", "unlink", "save_tmp", "save_replace"}

\* Variant of delete_file that unlinks without testing full_path.exists(): a missing
\* file makes unlink raise.
UnlinkRaises_WhenMissing(d, filepath, fail) == ~Exists(d, filepath) \/ fail = "unlink"

\* Variant of delete_file that swallows a failing unlink and goes on to the index.
UnlinkRaises_Ignored(d, filepath, fail) == FALSE

\* delete_file: full_path.unlink() raises
UnlinkRaises(d, filepath, fail) == Exists(d, filepath) /\ fail = "unlink"

\* Variant of delete_file without the index test.
DeleteTargetMissing_Never(md, filepath) == FALSE

\* delete_file: "if not self.metadata_manager._file_exists(filepath)"
DeleteTargetMissing(md, filepath) == ~_file_exists(md, filepath)

\* CloudServer.delete_file
delete_file_result(md, snap, d, ds, filepath, fail) ==
    IF DeleteTargetMissing(md, filepath)
    THEN Result(md, snap, d, ds, "NOT_FOUND", filepath, {}, FALSE)
    ELSE IF UnlinkRaises(d, filepath, fail)
    THEN Result(md, snap, d, ds, "INTERNAL_SERVER_ERROR", filepath, {}, TRUE)
    ELSE LET e == delete_file_entry(md, snap, filepath, SaveFail(fail))
         IN  Result(e.metadata, e.snapshot, Unlink(d, filepath), ds,
                    IF e.raised THEN "INTERNAL_SERVER_ERROR" ELSE "OK", filepath, {},
                    e.raised)

PatchFails == {"none", "mkdir", "rename", "save_tmp", "save_replace", "save_and_rollback"}

\* Variant of the tag computation without the length test.
NewTags_NoLengthCheck(current_tags, add_tags, remove_tags) == (current_tags \cup add_tags) \ remove_tags

\* patch_file, "Calculate new tags": additions longer than max_tag_length are skipped,
\* then the removals are discarded
NewTags(current_tags, add_tags, remove_tags) ==
    (current_tags \cup {t \in add_tags : Len(t) <= MaxTagLength}) \ remove_tags

\* Variant of the tag limit that also refuses a set of exactly max_tags_per_file tags.
TagLimitExceeded_AtLimit(new_tags) == Cardinality(new_tags) >= MaxTagsPerFile

\* patch_file: "if len(new_tags) > max_tags_per_file"
TagLimitExceeded(new_tags) == Cardinality(new_tags) > MaxTagsPerFile

\* Variant of patch_file without the destination check.
DestinationExists_Never(md, new_filepath) == FALSE

\* patch_file: "if patch_request.new_filepath:" and "if _file_exists(new_filepath)"
DestinationExists(md, new_filepath) == new_filepath # NoPath /\ _file_exists(md, new_filepath)

\* Variant of patch_file in which a failing rename goes unnoticed.
RenameRaises_Never(d, filepath, fail) == FALSE

\* patch_file: old_path.rename(new_path) raises, because the step fails or because
\* there is no file at old_path
RenameRaises(d, filepath, fail) == fail = "rename" \/ ~Exists(d, filepath)

\* Variant of the rollback in which the rename back is repeated until it succeeds.
Rollback_Retried(d, filepath, final_filepath, fail) ==
    IF final_filepath # filepath THEN Rename(d, final_filepath, filepath) ELSE d

\* patch_file, the except branch of the metadata update: new_path.rename(old_path),
\* itself allowed to fail (fail = "save_and_rollback")
Rollback(d, filepath, final_filepath, fail) ==
    IF final_filepath # filepath /\ fail # "save_and_rollback"
    THEN Rename(d, final_filepath, filepath) ELSE d

\* CloudServer.patch_file. new_filepath = NoPath: no move requested.
patch_file_result(md, snap, d, ds, now, filepath, add_tags, remove_tags, new_filepath, fail) ==
    IF ~_file_exists(md, filepath)
    THEN Result(md, snap, d, ds, "NOT_FOUND", filepath, {}, FALSE)
    ELSE LET current_tags == get_file_entry(md, filepath).tags
             new_tags == NewTags(current_tags, add_tags, remove_tags)
         IN  IF TagLimitExceeded(new_tags)
             THEN Result(md, snap, d, ds, "BAD_REQUEST", filepath, current_tags, FALSE)
             ELSE IF DestinationExists(md, new_filepath)
             THEN Result(md, snap, d, ds, "CONFLICT", filepath, current_tags, FALSE)
             ELSE IF new_filepath # NoPath /\ fail = "mkdir"
             THEN Result(md, snap, d, ds, "INTERNAL_SERVER_ERROR", filepath, current_tags,
                         TRUE)
             ELSE IF new_filepath # NoPath /\ RenameRaises(d, filepath, fail)
             THEN Result(md, snap, d, Mkdir(ds, new_filepath), "INTERNAL_SERVER_ERROR",
                         filepath, current_tags, fail = "rename")
             ELSE LET final_filepath ==
                          IF new_filepath # NoPath THEN new_filepath ELSE filepath
                      ds2 == IF new_filepath # NoPath THEN Mkdir(ds, new_filepath) ELSE ds
                      moved == IF final_filepath # filepath
                               THEN Rename(d, filepath, new_filepath) ELSE d
                      updates == [tags |-> new_tags,
                                  filepath |-> IF final_filepath # filepath
                                               THEN final_filepath ELSE NoPath]
                      u == update_file_entry(md, snap, filepath, updates, now,
                                             SaveFail(fail))
                  IN  IF u.raised
                      THEN Result(u.metadata, u.snapshot,
                                  Rollback(moved, filepath, final_filepath, fail), ds2,
                                  "INTERNAL_SERVER_ERROR", filepath, current_tags,
                                  fail = "save_and_rollback" => final_filepath # filepath)
                      ELSE Result(u.metadata, u.snapshot, moved, ds2, "OK", final_filepath,
                                  new_tags, FALSE)

\* Variant of get_file that answers from the index alone.
get_file_code_IndexOnly(md, d, filepath) == IF ~_file_exists(md, filepath) THEN "NOT_FOUND" ELSE "OK"

\* CloudServer.get_file: the status it answers with
get_file_code(md, d, filepath) ==
    IF ~_file_exists(md, filepath) THEN "NOT_FOUND"
    ELSE IF ~Exists(d, filepath) THEN "NOT_FOUND"
    ELSE "OK"

---------------------------------------------------------------------------
(* Spec: requests served one at a time *)

NoCall == [old |-> NoFile, new |-> NoFile, left |-> <<>>]

\* A failure input is offered while the behaviour has failures left, and only
\* where the handler reaches the failing step.
MayFail(fail) == fail # "none" => faults < MaxFaults

Apply(op, filepath, fail, r) ==
    /\ fail # "none" => r.hit
    /\ metadata' = r.metadata
    /\ snapshot' = r.snapshot
    /\ disk' = r.disk
    /\ dirs' = r.dirs
    /\ resp' = Response(op, filepath, r.code, r.rpath, r.rtags)
    /\ faults' = IF fail # "none" THEN faults + 1 ELSE faults
    /\ UNCHANGED <<tmpfile, clock, pc, call>>

post_file(filepath, stream, content_type, fail) ==
    /\ MayFail(fail)
    /\ Apply("post", filepath, fail,
             post_file_result(metadata, snapshot, disk, dirs, clock, filepath, stream,
                              content_type, fail))

delete_file(filepath, fail) ==
    /\ MayFail(fail)
    /\ Apply("delete", filepath, fail,
             delete_file_result(metadata, snapshot, disk, dirs, filepath, fail))

patch_file(filepath, add_tags, remove_tags, new_filepath, fail) ==
    /\ MayFail(fail)
    /\ Apply("patch", filepath, fail,
             patch_file_result(metadata, snapshot, disk, dirs, clock, filepath, add_tags,
                               remove_tags, new_filepath, fail))

get_file(filepath) ==
    /\ resp' = Response("get", filepath, get_file_code(metadata, disk, filepath), filepath,
                        {})
    /\ UNCHANGED <<metadata, snapshot, tmpfile, disk, dirs, clock, faults, pc, call>>

EmptyDisk == [l \in {} |-> 0]

\* After construction: an empty storage directory and an empty index, saved.
Init ==
    /\ metadata = <<>>
    /\ snapshot = Serialize(<<>>)
    /\ tmpfile = NoFile
    /\ disk = EmptyDisk
    /\ dirs = {}
    /\ clock = 0
    /\ resp = Response("init", NoPath, "OK", NoPath, {})
    /\ faults = 0
    /\ pc = "idle"
    /\ call = NoCall

\* the (add_tags, remove_tags) pairs of the requests
TagEdits ==
    {<<{}, {}>>, <<{"x"}, {}>>, <<{"y"}, {}>>, <<{"x", "zz"}, {}>>,
     <<{}, {"x"}>>, <<{"y"}, {"x"}>>, <<{"x"}, {"x"}>>}

PostFile ==
    \E p \in Paths, s \in Streams, ct \in ContentTypes, f \in PostFails :
        post_file(p, s, ct, f)

PatchFile ==
    \E p \in Paths, e \in TagEdits, q \in Paths \cup {NoPath}, f \in PatchFails :
        patch_file(p, e[1], e[2], q, f)

DeleteFile == \E p \in Paths, f \in DeleteFails : delete_file(p, f)

GetFile == \E p \in Paths : get_file(p)

Next == PostFile \/ PatchFile \/ DeleteFile \/ GetFile

Spec == Init /\ [][Next]_vars

---------------------------------------------------------------------------
(* SaveSpec: one index call at a time, its _save_metadata_atomic run step   *)
(* by step. The process can crash between any two steps: the files stay as *)
(* they are, the memory is lost, and a restart loads the canonical file.   *)
(* Path.replace is one atomic step of the filesystem.                      *)

\* open(temp_filepath, "w"): the temporary file exists, empty and incomplete
OpenFile == [entries |-> <<>>, closed |-> FALSE, exists |-> TRUE]

\* json.dump reaches the file piece by piece: one more item of the mapping
WriteItem(f, item) == [f EXCEPT !.entries = Append(@, item)]

\* Variant of the save that replaces the canonical file before the text is complete.
CloseFile_Skipped(f) == f

\* leaving the with block: the text is complete and flushed
CloseFile(f) == [f EXCEPT !.closed = TRUE]

\* the in-memory step is done and _save_metadata_atomic is entered
BeginSave(md) ==
    /\ pc = "idle"
    /\ metadata' = md
    /\ pc' = "open"
    /\ call' = [old |-> snapshot, new |-> Serialize(md), left |-> Serialize(md).entries]
    /\ resp' = Response("init", NoPath, "OK", NoPath, {})
    /\ UNCHANGED <<snapshot, tmpfile, disk, dirs, clock, faults>>

BeginAdd(filepath, size) ==
    /\ ~_file_exists(metadata, filepath)
    /\ BeginSave(AddEntry(metadata,
                          new_current_instance(filepath, GuessType(filepath), size, {},
                                               clock)))

BeginDelete(filepath) ==
    /\ _file_exists(metadata, filepath)
    /\ BeginSave(DeleteEntry(metadata, filepath))

BeginUpdate(filepath, tags, new_filepath) ==
    /\ _file_exists(metadata, filepath)
    /\ BeginSave(UpdateEntry(metadata, filepath,
                             [tags |-> tags, filepath |-> new_filepath], clock))

SaveOpen ==
    /\ pc = "open"
    /\ tmpfile' = OpenFile
    /\ pc' = "write"
    /\ UNCHANGED <<metadata, snapshot, disk, dirs, clock, resp, faults, call>>

SaveWrite ==
    /\ pc = "write"
    /\ call.left # <<>>
    /\ tmpfile' = WriteItem(tmpfile, Head(call.left))
    /\ call' = [call EXCEPT !.left = Tail(@)]
    /\ UNCHANGED <<metadata, snapshot, disk, dirs, clock, resp, faults, pc>>

SaveClose ==
    /\ pc = "write"
    /\ call.left = <<>>
    /\ tmpfile' = CloseFile(tmpfile)
    /\ pc' = "replace"
    /\ UNCHANGED <<metadata, snapshot, disk, dirs, clock, resp, faults, call>>

\* temp_filepath.replace(self.metadata_filepath), then return to the caller
SaveReplace ==
    /\ pc = "replace"
    /\ snapshot' = tmpfile
    /\ tmpfile' = NoFile
    /\ pc' = "idle"
    /\ call' = NoCall
    /\ resp' = Response("save", NoPath, "OK", NoPath, {})
    /\ UNCHANGED <<metadata, disk, dirs, clock, faults>>

\* the step about to run raises instead
SaveRaise ==
    /\ pc \in {"open", "write", "replace"}
    /\ pc' = "except"
    /\ UNCHANGED <<metadata, snapshot, tmpfile, disk, dirs, clock, resp, faults, call>>

\* Variant of the except branch that leaves the temporary file where it is.
Cleanup_Skipped(f) == f

\* except: "if temp_filepath.exists(): temp_filepath.unlink()"
Cleanup(f) == NoFile

\* except: unlink the temporary file if it exists, re-raise to the caller
SaveExcept ==
    /\ pc = "except"
    /\ tmpfile' = Cleanup(tmpfile)
    /\ pc' = "idle"
    /\ call' = NoCall
    /\ resp' = Response("save", NoPath, "OSError", NoPath, {})
    /\ UNCHANGED <<metadata, snapshot, disk, dirs, clock, faults>>

\* the process dies: memory is lost, the files stay (call is kept as the record of
\* what the interrupted save was doing)
Crash ==
    /\ pc # "crashed"
    /\ pc' = "crashed"
    /\ metadata' = <<>>
    /\ UNCHANGED <<snapshot, tmpfile, disk, dirs, clock, resp, faults, call>>

\* a new process: MetadataManager.__init__ / _load_metadata of an existing file
Restart ==
    /\ pc = "crashed"
    /\ Parseable(snapshot)
    /\ metadata' = Parse(snapshot)
    /\ pc' = "idle"
    /\ call' = NoCall
    /\ UNCHANGED <<snapshot, tmpfile, disk, dirs, clock, resp, faults>>

\* the tag lists update_file_entry is called with
TagSets == {{}, {"x"}}

SaveBegin ==
    \/ \E p \in Paths, n \in 0..MaxFileSize : BeginAdd(p, n)
    \/ \E p \in Paths : BeginDelete(p)
    \/ \E p \in Paths, t \in TagSets, q \in Paths \cup {NoPath} : BeginUpdate(p, t, q)

SaveNext ==
    \/ SaveBegin
    \/ SaveOpen
    \/ SaveWrite
    \/ SaveClose
    \/ SaveReplace
    \/ SaveRaise
    \/ SaveExcept
    \/ Crash
    \/ Restart

SaveSpec == Init /\ [][SaveNext]_vars

---------------------------------------------------------------------------
(* Properties. A property about "every request of a kind" is stated over   *)
(* the handler's result in every reachable state, for every input of the   *)
(* request; Later is a reading of the clock after the records' timestamps, *)
(* so that a refreshed updated_at shows.                                   *)

Stores(md, snap, d, ds) == [metadata |-> md, snapshot |-> snap, disk |-> d, dirs |-> ds]

Here == Stores(metadata, snapshot, disk, dirs)

After(r) == Stores(r.metadata, r.snapshot, r.disk, r.dirs)

Later == clock + 1

\* C1: when a PutFile on p has succeeded and the next request is a PutFile on p, that
\* second call answers Conflict and changes neither the file on disk nor the index
\* (mapping and snapshot): both are as the first call left them.
C1_SecondPutConflicts ==
    [][(/\ resp.op = "post" /\ resp.code = "OK"
        /\ resp'.op = "post" /\ resp'.filepath = resp.filepath)
       => (/\ resp'.code = "CONFLICT"
           /\ disk' = disk
           /\ metadata' = metadata
           /\ snapshot' = snapshot)]_vars

\* a PutFile on a path that is indexed with its file on disk was answered Conflict
C1_Witness ==
    /\ resp.op = "post" /\ resp.code = "CONFLICT"
    /\ _file_exists(metadata, resp.filepath)
    /\ Exists(disk, resp.filepath)

\* C2: from every state, for every path p neither indexed nor on disk, a successful
\* PutFile(p) followed by a successful DeleteFile(p) leaves the in-memory mapping, the
\* persisted snapshot and the files under the storage root as they were before.
C2_PutThenDeleteRestores ==
    \A p \in Paths, s \in Streams, ct \in ContentTypes :
        LET r1 == post_file_result(metadata, snapshot, disk, dirs, clock, p, s, ct, "none")
            r2 == delete_file_result(r1.metadata, r1.snapshot, r1.disk, r1.dirs, p, "none")
        IN  (/\ ~_file_exists(metadata, p) /\ ~Exists(disk, p)
             /\ r1.code = "OK" /\ r2.code = "OK")
            => (/\ r2.metadata = metadata
                /\ r2.snapshot = snapshot
                /\ r2.disk = disk)

\* C3 as stated: every PutFile whose content adds up to more than the maximum file
\* size leaves no file at the destination path and no index entry for it, however the
\* content is split into chunks.
C3_OversizeLeavesNothing ==
    \A p \in Paths, s \in Streams, ct \in ContentTypes, f \in PostFails :
        LET r == post_file_result(metadata, snapshot, disk, dirs, clock, p, s, ct, f)
        IN  Total(s) > MaxFileSize
            => (~Exists(r.disk, p) /\ ~_file_exists(r.metadata, p))

\* C3 amended: every PutFile on a path that is not indexed whose content adds up to
\* more than the maximum file size leaves no file at the destination path and no index
\* entry for it, however the content is split into chunks (and, when no I/O step
\* fails, it is answered BadRequest).
C3_OversizeNewPathLeavesNothing ==
    \A p \in Paths, s \in Streams, ct \in ContentTypes, f \in PostFails :
        LET r == post_file_result(metadata, snapshot, disk, dirs, clock, p, s, ct, f)
        IN  (Total(s) > MaxFileSize /\ ~_file_exists(metadata, p))
            => (/\ ~Exists(r.disk, p)
                /\ ~_file_exists(r.metadata, p)
                /\ r.metadata = metadata /\ r.snapshot = snapshot
                /\ f = "none" => r.code = "BAD_REQUEST")

\* an oversize upload to a new path was refused and left nothing
C3_Witness ==
    /\ resp.op = "post" /\ resp.code = "BAD_REQUEST"
    /\ ~Exists(disk, resp.filepath)
    /\ ~_file_exists(metadata, resp.filepath)

\* C4: when PatchFile with a new path q has renamed the file and update_file_entry
\* then raises because saving the snapshot fails (the compensating rename succeeds),
\* the file is back at p and not at q, and the index has the record under p and not
\* under q.
C4_FailedUpdateKeepsOriginalPath ==
    \A p \in Paths, q \in Paths, e \in TagEdits, f \in {"save_tmp", "save_replace"} :
        LET r == patch_file_result(metadata, snapshot, disk, dirs, Later, p, e[1], e[2], q,
                                   f)
        IN  (r.hit /\ r.code = "INTERNAL_SERVER_ERROR")
            => (/\ Exists(r.disk, p) /\ ~Exists(r.disk, q)
                /\ _file_exists(r.metadata, p)
                /\ ~_file_exists(r.metadata, q))

\* C5 as stated: PatchFile on an indexed p with a new path q # p that is indexed is
\* answered Conflict and changes nothing, whatever tag additions and removals it
\* carries.
C5_IndexedDestinationConflicts ==
    \A p \in Paths, q \in Paths, e \in TagEdits, f \in PatchFails :
        LET r == patch_file_result(metadata, snapshot, disk, dirs, Later, p, e[1], e[2], q,
                                   f)
        IN  (p # q /\ _file_exists(metadata, p) /\ _file_exists(metadata, q))
            => (r.code = "CONFLICT" /\ After(r) = Here)

\* C5 amended: PatchFile on an indexed p with a new path q # p that is indexed fails
\* and changes nothing (files, both records with their tags and updated_at, snapshot),
\* whatever tag additions and removals it carries: it is answered BadRequest when the
\* tags the request computes for p are more than max_tags_per_file, Conflict otherwise.
C5_IndexedDestinationRefused ==
    \A p \in Paths, q \in Paths, e \in TagEdits, f \in PatchFails :
        LET r == patch_file_result(metadata, snapshot, disk, dirs, Later, p, e[1], e[2], q,
                                   f)
            computed == (get_file_entry(metadata, p).tags
                             \cup {t \in e[1] : Len(t) <= MaxTagLength}) \ e[2]
        IN  (p # q /\ _file_exists(metadata, p) /\ _file_exists(metadata, q))
            => (/\ r.code = IF Cardinality(computed) > MaxTagsPerFile
                            THEN "BAD_REQUEST" ELSE "CONFLICT"
                /\ After(r) = Here)

\* a PatchFile was answered Conflict while both paths are indexed with their files
C5_Witness ==
    /\ resp.op = "patch" /\ resp.code = "CONFLICT"
    /\ \A p \in Paths : _file_exists(metadata, p) /\ Exists(disk, p)

\* C6: a successful PatchFile(p, add, remove, new path q) with q not indexed returns q
\* and the computed tags, moves the file from p to q (same content, nothing left at
\* p), leaves one record for the file, keyed by q and carrying q and the tags, none
\* under p, and GetFile(p) is then NotFound.
C6_SuccessfulMove ==
    \A p \in Paths, q \in Paths, e \in TagEdits :
        LET r == patch_file_result(metadata, snapshot, disk, dirs, Later, p, e[1], e[2], q,
                                   "none")
        IN  (r.code = "OK" /\ ~_file_exists(metadata, q))
            => LET computed == (get_file_entry(metadata, p).tags
                                    \cup {t \in e[1] : Len(t) <= MaxTagLength}) \ e[2]
               IN  /\ r.rpath = q
                   /\ r.rtags = computed
                   /\ Exists(r.disk, q) /\ ~Exists(r.disk, p)
                   /\ r.disk[Loc(q)] = disk[Loc(p)]
                   /\ Cardinality({i \in 1..Len(r.metadata) : r.metadata[i].key = q}) = 1
                   /\ ~_file_exists(r.metadata, p)
                   /\ Len(r.metadata) = Len(metadata)
                   /\ get_file_entry(r.metadata, q).filepath = q
                   /\ get_file_entry(r.metadata, q).tags = computed
                   /\ get_file_entry(r.metadata, q).size = get_file_entry(metadata, p).size
                   /\ r.snapshot = Serialize(r.metadata)
                   /\ get_file_code(r.metadata, r.disk, p) = "NOT_FOUND"

\* a PatchFile moved a file and returned the new path with a tag
C6_Witness ==
    /\ resp.op = "patch" /\ resp.code = "OK"
    /\ resp.rpath # resp.filepath
    /\ resp.rtags # {}
    /\ Exists(disk, resp.rpath) /\ _file_exists(metadata, resp.rpath)

\* C7: whenever PutFile fails (a write failure, a size overflow, a failure of the index
\* add, a failure while saving the snapshot), there is afterwards no file at the
\* destination path and no index entry for it.
C7_PutAllOrNothing ==
    (resp.op = "post" /\ resp.code \in {"BAD_REQUEST", "INTERNAL_SERVER_ERROR"})
        => (~Exists(disk, resp.filepath) /\ ~_file_exists(metadata, resp.filepath))

\* C8: on an indexed path whose file is on disk, a DeleteFile whose unlink fails is
\* answered with an error and changes nothing (entry present, file on disk); and
\* whatever fails in a DeleteFile on an indexed path, a file that is still on disk
\* afterwards still has its index entry.
C8_DeleteKeepsEntryOfKeptFile ==
    \A p \in Paths, f \in DeleteFails :
        LET r == delete_file_result(metadata, snapshot, disk, dirs, p, f)
        IN  _file_exists(metadata, p)
            => (/\ (f = "unlink" /\ Exists(disk, p))
                       => (/\ r.code = "INTERNAL_SERVER_ERROR"
                           /\ After(r) = Here)
                /\ Exists(r.disk, p) => _file_exists(r.metadata, p))

\* a DeleteFile failed and left the file on disk and its entry in the index
C8_Witness ==
    /\ resp.op = "delete" /\ resp.code = "INTERNAL_SERVER_ERROR"
    /\ Exists(disk, resp.filepath)
    /\ _file_exists(metadata, resp.filepath)

\* C9: add_file_entry, delete_file_entry and update_file_entry are atomic with respect
\* to failure: when one returns, the mapping has the change and the snapshot is the
\* text of the mapping; when one raises (also while writing or renaming the snapshot),
\* the mapping and the snapshot are exactly as before the call.
C9_IndexCallsAtomic ==
    \A p \in Paths, q \in Paths \cup {NoPath}, t \in TagSets, sf \in SaveFails :
        LET fm == new_current_instance(p, GuessType(p), MaxFileSize, {}, Later)
            a == add_file_entry(metadata, snapshot, fm, sf)
            d == delete_file_entry(metadata, snapshot, p, sf)
            u == update_file_entry(metadata, snapshot, p, [tags |-> t, filepath |-> q],
                                   Later, sf)
            Atomic(c) == IF c.raised
                         THEN c.metadata = metadata /\ c.snapshot = snapshot
                         ELSE c.snapshot = Serialize(c.metadata)
        IN  Atomic(a) /\ Atomic(d) /\ Atomic(u)

\* C10: in every state of SaveSpec, a crash at any point of _save_metadata_atomic
\* included (temporary file partly written, complete but not yet renamed, or renamed),
\* the canonical file holds a complete text of a mapping, and while or after a save it
\* is either the full text from before that save or the full new text.
C10_CanonicalFileComplete ==
    /\ Parseable(snapshot)
    /\ call # NoCall => snapshot \in {call.old, call.new}
    /\ pc = "idle" => call = NoCall

\* the process crashed with the temporary file partly written, during a save that
\* changes the text
C10_Witness ==
    /\ pc = "crashed"
    /\ tmpfile.exists /\ ~tmpfile.closed
    /\ tmpfile.entries # <<>>
    /\ call.left # <<>>
    /\ call.old # call.new

---------------------------------------------------------------------------
(* AliasSpec: requests served one at a time, no I/O step failing, with one *)
(* more request path: a second spelling of a location.                     *)

AliasPaths == Paths \cup {"d//b.txt"}

AliasPost == \E p \in AliasPaths, s \in Streams, ct \in ContentTypes : post_file(p, s, ct, "none")

AliasTagEdits == {<<{}, {}>>, <<{"x"}, {}>>}

AliasPatch == \E p \in AliasPaths, e \in AliasTagEdits, q \in AliasPaths \cup {NoPath} : patch_file(p, e[1], e[2], q, "none")

AliasDelete == \E p \in AliasPaths : delete_file(p, "none")

AliasNext == AliasPost \/ AliasPatch \/ AliasDelete

AliasSpec == Init /\ [][AliasNext]_vars

\* the regular files under the storage directory
Files(d) == DOMAIN d

\* C11: after any sequence of completed PutFile, PatchFile and DeleteFile calls, one at
\* a time, none meeting an I/O failure, from the empty (consistent) state: the indexed
\* paths and the regular files under the storage root correspond one to one, and each
\* record's size is the size of its file.
C11_IndexMirrorsFiles ==
    faults = 0 =>
        /\ {Loc(k) : k \in Keys(metadata)} = Files(disk)
        /\ \A k1 \in Keys(metadata), k2 \in Keys(metadata) : Loc(k1) = Loc(k2) => k1 = k2
        /\ \A k \in Keys(metadata) : get_file_entry(metadata, k).size = disk[Loc(k)]

---------------------------------------------------------------------------
(* CrashSpec: the disk step and the index step of a handler as two steps.  *)
(* The process can die between them; the coordinator is then constructed   *)
(* again over the files and the snapshot the dead process left.            *)

MidSteps == {"post_written", "delete_unlinked", "patch_renamed"}

Request(op, filepath, new_filepath, size) == [op |-> op, filepath |-> filepath, new_filepath |-> new_filepath, size |-> size]

\* post_file up to the end of the upload loop: parent directories, the file
PostWrite(filepath, size) ==
    /\ pc = "idle"
    /\ ~AlreadyExists(metadata, filepath)
    /\ dirs' = Mkdir(dirs, filepath)
    /\ disk' = WriteFile(disk, filepath, size)
    /\ pc' = "post_written"
    /\ call' = Request("post", filepath, NoPath, size)
    /\ UNCHANGED <<metadata, snapshot, tmpfile, clock, resp, faults>>

\* post_file from add_file_entry on
PostAdd ==
    /\ pc = "post_written"
    /\ LET fm == new_current_instance(call.filepath, GuessType(call.filepath), call.size, {}, clock)
           a == add_file_entry(metadata, snapshot, fm, "none")
       IN  metadata' = a.metadata /\ snapshot' = a.snapshot
    /\ resp' = Response("post", call.filepath, "OK", call.filepath, {})
    /\ pc' = "idle"
    /\ call' = NoCall
    /\ UNCHANGED <<tmpfile, disk, dirs, clock, faults>>

\* delete_file up to the unlink
DeleteUnlink(filepath) ==
    /\ pc = "idle"
    /\ _file_exists(metadata, filepath)
    /\ disk' = Unlink(disk, filepath)
    /\ pc' = "delete_unlinked"
    /\ call' = Request("delete", filepath, NoPath, 0)
    /\ UNCHANGED <<metadata, snapshot, tmpfile, dirs, clock, resp, faults>>

\* delete_file from delete_file_entry on
DeleteRemove ==
    /\ pc = "delete_unlinked"
    /\ LET e == delete_file_entry(metadata, snapshot, call.filepath, "none")
       IN  metadata' = e.metadata /\ snapshot' = e.snapshot
    /\ resp' = Response("delete", call.filepath, "OK", call.filepath, {})
    /\ pc' = "idle"
    /\ call' = NoCall
    /\ UNCHANGED <<tmpfile, disk, dirs, clock, faults>>

\* patch_file with a new path, up to the rename
PatchRename(filepath, new_filepath) ==
    /\ pc = "idle"
    /\ _file_exists(metadata, filepath)
    /\ new_filepath # NoPath
    /\ ~DestinationExists(metadata, new_filepath)
    /\ Exists(disk, filepath)
    /\ dirs' = Mkdir(dirs, new_filepath)
    /\ disk' = Rename(disk, filepath, new_filepath)
    /\ pc' = "patch_renamed"
    /\ call' = Request("patch", filepath, new_filepath, 0)
    /\ UNCHANGED <<metadata, snapshot, tmpfile, clock, resp, faults>>

\* patch_file from update_file_entry on
PatchUpdate ==
    /\ pc = "patch_renamed"
    /\ LET tags == get_file_entry(metadata, call.filepath).tags
           u == update_file_entry(metadata, snapshot, call.filepath, [tags |-> tags, filepath |-> call.new_filepath], clock, "none")
       IN  metadata' = u.metadata /\ snapshot' = u.snapshot
    /\ resp' = Response("patch", call.filepath, "OK", call.new_filepath, get_file_entry(metadata, call.filepath).tags)
    /\ pc' = "idle"
    /\ call' = NoCall
    /\ UNCHANGED <<tmpfile, disk, dirs, clock, faults>>

\* the process dies between the disk step and the index step
MidCrash == pc \in MidSteps /\ Crash

\* CloudServer.__init__: _initialize_storage (the storage directory is there) and
\* MetadataManager(metadata_filepath), which loads the canonical file. Nothing else.
Construct ==
    /\ pc = "crashed"
    /\ Parseable(snapshot)
    /\ metadata' = Parse(snapshot)
    /\ resp' = Response("init", NoPath, "OK", NoPath, {})
    /\ pc' = "idle"
    /\ call' = NoCall
    /\ UNCHANGED <<snapshot, tmpfile, disk, dirs, clock, faults>>

CrashBegin ==
    \/ \E p \in Paths, n \in 0..MaxFileSize : PostWrite(p, n)
    \/ \E p \in Paths : DeleteUnlink(p)
    \/ \E p \in Paths, q \in Paths : PatchRename(p, q)

CrashNext ==
    \/ CrashBegin
    \/ PostAdd
    \/ DeleteRemove
    \/ PatchUpdate
    \/ MidCrash
    \/ Construct

CrashSpec == Init /\ [][CrashNext]_vars

\* the coordinator has just been constructed
Constructed == resp.op = "init" /\ pc = "idle"

\* C12: when the coordinator is constructed over a storage root holding a regular file
\* with no index entry, the index afterwards has a record for that file with its
\* measured size: after construction every file has its record.
C12_ConstructionAdoptsOrphans ==
    Constructed =>
        \A p \in Paths : Exists(disk, p) =>
            /\ _file_exists(metadata, p)
            /\ get_file_entry(metadata, p).size = disk[Loc(p)]

\* C13: when the coordinator is constructed and the loaded index has an entry whose
\* file is not on disk, that entry is gone after construction: after construction every
\* record has its file.
C13_ConstructionPrunesStale ==
    Constructed => \A p \in Keys(metadata) : Exists(disk, p)

\* C14: when the process died between the disk step and the index step of PutFile,
\* PatchFile (rename) or DeleteFile, then after the next construction the set of
\* indexed paths equals the set of regular files under the storage root.
C14_ConstructionAfterCrashMirrors ==
    Constructed => {Loc(k) : k \in Keys(metadata)} = Files(disk)

---------------------------------------------------------------------------
(* Properties of single requests, in Spec *)

\* the tags a PatchFile computes, written out
Computed(current_tags, add_tags, remove_tags) == (current_tags \cup {t \in add_tags : Len(t) <= MaxTagLength}) \ remove_tags

\* C15: GetFile(p) succeeds only if p is indexed and its file is on disk at the time of
\* the call; if p is indexed with no file, or not indexed, it answers NotFound; the
\* call leaves index and disk as they are (a completed GetFile is answered by the very
\* state it leaves).
C15_GetFileNeedsIndexAndFile ==
    /\ \A p \in Paths :
          get_file_code(metadata, disk, p) = IF _file_exists(metadata, p) /\ Exists(disk, p) THEN "OK" ELSE "NOT_FOUND"
    /\ resp.op = "get" =>
          (resp.code = "OK" <=> (_file_exists(metadata, resp.filepath) /\ Exists(disk, resp.filepath)))

\* a GetFile on an indexed path whose file is not on disk was answered NotFound
C15_Witness ==
    /\ resp.op = "get" /\ resp.code = "NOT_FOUND"
    /\ _file_exists(metadata, resp.filepath)
    /\ ~Exists(disk, resp.filepath)

\* C16: DeleteFile on an indexed path whose file is not on disk does not fail: it
\* removes the entry (from mapping and snapshot), reports success, touches no file.
C16_DeleteToleratesMissingFile ==
    \A p \in Paths, f \in {"none", "unlink"} :
        LET r == delete_file_result(metadata, snapshot, disk, dirs, p, f)
        IN  (_file_exists(metadata, p) /\ ~Exists(disk, p))
            => (/\ r.code = "OK"
                /\ ~_file_exists(r.metadata, p)
                /\ r.snapshot = Serialize(r.metadata)
                /\ r.disk = disk)

\* an indexed path has no file on disk and a DeleteFile on it succeeds
C16_Witness ==
    \E p \in Paths :
        /\ _file_exists(metadata, p) /\ ~Exists(disk, p)
        /\ delete_file_result(metadata, snapshot, disk, dirs, p, "none").code = "OK"
        /\ delete_file_result(metadata, snapshot, disk, dirs, p, "none").metadata # metadata

\* C17: every PatchFile that succeeds returns and stores the tag set (current tags plus
\* the added tags no longer than max_tag_length) minus the removed tags; a tag that is
\* too long is no error: a request whose computed set is within the limit and which
\* asks no move succeeds; a tag both added and removed is absent.
C17_PatchComputesTags ==
    \A p \in Paths, e \in TagEdits, q \in Paths \cup {NoPath} :
        _file_exists(metadata, p) =>
            LET r == patch_file_result(metadata, snapshot, disk, dirs, Later, p, e[1], e[2], q, "none")
                computed == Computed(get_file_entry(metadata, p).tags, e[1], e[2])
            IN  /\ r.code = "OK" =>
                    /\ r.rtags = computed
                    /\ get_file_entry(r.metadata, r.rpath).tags = computed
                    /\ (e[1] \cap e[2]) \cap r.rtags = {}
                /\ (q = NoPath /\ Cardinality(computed) <= MaxTagsPerFile) => r.code = "OK"
                /\ ((resp.op = "patch" /\ resp.code = "OK" /\ resp.rpath = p) => get_file_entry(metadata, p).tags = resp.rtags)

\* a PatchFile succeeded and the record carries the returned, non-empty tag set
C17_Witness ==
    /\ resp.op = "patch" /\ resp.code = "OK"
    /\ resp.rtags = {"x"}
    /\ get_file_entry(metadata, resp.rpath).tags = {"x"}

\* C18: a PatchFile whose computed tag set has more than max_tags_per_file elements
\* answers BadRequest with the original tag set and changes nothing (record, snapshot,
\* disk), also when a new path is requested; a computed set of exactly
\* max_tags_per_file tags is not refused for its size.
C18_TagLimitRefusesWithoutChange ==
    \A p \in Paths, e \in TagEdits :
        _file_exists(metadata, p) =>
            LET current == get_file_entry(metadata, p).tags
                computed == Computed(current, e[1], e[2])
            IN  /\ Cardinality(computed) > MaxTagsPerFile =>
                    \A q \in Paths \cup {NoPath}, f \in PatchFails :
                        LET r == patch_file_result(metadata, snapshot, disk, dirs, Later, p, e[1], e[2], q, f)
                        IN  /\ r.code = "BAD_REQUEST"
                            /\ r.rpath = p
                            /\ r.rtags = current
                            /\ After(r) = Here
                /\ Cardinality(computed) = MaxTagsPerFile =>
                    /\ \A q \in Paths \cup {NoPath} :
                          patch_file_result(metadata, snapshot, disk, dirs, Later, p, e[1], e[2], q, "none").code # "BAD_REQUEST"
                    /\ patch_file_result(metadata, snapshot, disk, dirs, Later, p, e[1], e[2], NoPath, "none").code = "OK"

\* a PatchFile on a tagged record was refused with BadRequest and reported the tags the
\* record still has
C18_Witness ==
    /\ resp.op = "patch" /\ resp.code = "BAD_REQUEST"
    /\ _file_exists(metadata, resp.filepath)
    /\ resp.rtags = {"x"}
    /\ get_file_entry(metadata, resp.filepath).tags = {"x"}

\* C19: PatchFile and DeleteFile on a path that is not indexed answer NotFound and
\* leave mapping, snapshot and disk as they are, also when a file with that path is on
\* disk without an index entry.
C19_UnindexedPathNotFound ==
    \A p \in Paths :
        ~_file_exists(metadata, p) =>
            /\ \A e \in TagEdits, q \in Paths \cup {NoPath}, f \in PatchFails :
                  LET r == patch_file_result(metadata, snapshot, disk, dirs, Later, p, e[1], e[2], q, f)
                  IN  r.code = "NOT_FOUND" /\ After(r) = Here
            /\ \A f \in DeleteFails :
                  LET r == delete_file_result(metadata, snapshot, disk, dirs, p, f)
                  IN  r.code = "NOT_FOUND" /\ After(r) = Here

\* a PatchFile or DeleteFile was answered NotFound for a path that has a file on disk
\* and no index entry
C19_Witness ==
    /\ resp.op \in {"patch", "delete"} /\ resp.code = "NOT_FOUND"
    /\ ~_file_exists(metadata, resp.filepath)
    /\ Exists(disk, resp.filepath)

---------------------------------------------------------------------------
(* ListSpec: the index alone, under a clock that advances. Records are     *)
(* added, updated and deleted through MetadataManager and listed with      *)
(* list_files. A timestamp field holds the clock reading t that stands for *)
(* the text datetime.now().isoformat() + "Z" printed at t.                 *)

MaxClock == 2

\* clock readings in one second
TicksPerSecond == 2

ListPaths == {"a.txt", "d/b.txt", "c.txt"}

ListTagSets == {{}, {"x"}}

\* the tag argument of list_files: a tag, or NoTag for None
NoTag == "None"

QueryTags == {NoTag, "x", "y"}

\* FileMetadata.current_timestamp: isoformat prints the fraction of the second only
\* when it is not zero
current_timestamp(t) == [sec |-> t \div TicksPerSecond, frac |-> t % TicksPerSecond]

\* str < str on two timestamps: the seconds have a fixed width; after them "." sorts
\* before "Z", so a text with a fraction is below the text of the whole second
StrLess(t1, t2) ==
    LET a == current_timestamp(t1)
        b == current_timestamp(t2)
    IN  \/ a.sec < b.sec
        \/ /\ a.sec = b.sec
           /\ \/ a.frac # 0 /\ b.frac = 0
              \/ a.frac # 0 /\ b.frac # 0 /\ a.frac < b.frac

\* list.sort(reverse=True) is stable: f goes behind every element that is not below it
RECURSIVE SortInsert(_, _)
SortInsert(files, f) ==
    IF files = <<>> THEN <<f>>
    ELSE IF StrLess(Head(files).uploaded_at, f.uploaded_at) THEN <<f>> \o files
    ELSE <<Head(files)>> \o SortInsert(Tail(files), f)

\* the elements of files put one after the other into the sorted list
RECURSIVE SortFold(_, _)
SortFold(sorted, files) ==
    IF files = <<>> THEN sorted
    ELSE SortFold(SortInsert(sorted, Head(files)), Tail(files))

\* Variant of the sort that leaves the records in the order of the mapping.
SortNewestFirst_Unsorted(files) == files

\* files.sort(key=lambda f: f.uploaded_at, reverse=True)
SortNewestFirst(files) == SortFold(<<>>, files)

\* files[offset : offset + limit]
Slice(files, offset, limit) ==
    SubSeq(files, offset + 1, IF offset + limit < Len(files) THEN offset + limit ELSE Len(files))

\* MetadataManager.list_files
list_files(md, tag, offset, limit) ==
    LET kept == SelectSeq(md, LAMBDA e : tag = NoTag \/ tag \in e.val.tags)
        files == [i \in 1..Len(kept) |-> kept[i].val]
    IN  Slice(SortNewestFirst(files), offset, limit)

\* what a call of the index answers with: the list for list_files, nothing otherwise
ListResponse(op, tag, limit, files) == [op |-> op, tag |-> tag, limit |-> limit, files |-> files]

AddFileEntry(filepath, tags) ==
    /\ pc = "idle"
    /\ LET r == add_file_entry(metadata, snapshot, new_current_instance(filepath, "text/plain", 1, tags, clock), "none")
       IN  /\ ~r.raised
           /\ metadata' = r.metadata
           /\ snapshot' = r.snapshot
    /\ resp' = ListResponse("index", NoTag, 0, <<>>)
    /\ UNCHANGED <<tmpfile, disk, dirs, clock, faults, pc, call>>

UpdateFileEntry(filepath, tags, new_filepath) ==
    /\ pc = "idle"
    /\ LET r == update_file_entry(metadata, snapshot, filepath, [tags |-> tags, filepath |-> new_filepath], clock, "none")
       IN  /\ ~r.raised
           /\ metadata' = r.metadata
           /\ snapshot' = r.snapshot
    /\ resp' = ListResponse("index", NoTag, 0, <<>>)
    /\ UNCHANGED <<tmpfile, disk, dirs, clock, faults, pc, call>>

DeleteFileEntry(filepath) ==
    /\ pc = "idle"
    /\ LET r == delete_file_entry(metadata, snapshot, filepath, "none")
       IN  /\ ~r.raised
           /\ metadata' = r.metadata
           /\ snapshot' = r.snapshot
    /\ resp' = ListResponse("index", NoTag, 0, <<>>)
    /\ UNCHANGED <<tmpfile, disk, dirs, clock, faults, pc, call>>

ListFiles(tag, limit) ==
    /\ pc = "idle"
    /\ resp' = ListResponse("list", tag, limit, list_files(metadata, tag, 0, limit))
    /\ UNCHANGED <<metadata, snapshot, tmpfile, disk, dirs, clock, faults, pc, call>>

\* time passes between two calls
Tick ==
    /\ clock < MaxClock
    /\ clock' = clock + 1
    /\ UNCHANGED <<metadata, snapshot, tmpfile, disk, dirs, resp, faults, pc, call>>

ListAdd == \E p \in ListPaths, tg \in ListTagSets : AddFileEntry(p, tg)

ListUpdate == \E p \in ListPaths, tg \in ListTagSets, q \in {NoPath, "c.txt"} : UpdateFileEntry(p, tg, q)

ListDelete == \E p \in ListPaths : DeleteFileEntry(p)

ListList == \E t \in {NoTag, "x"} : ListFiles(t, Cardinality(ListPaths))

ListNext == ListAdd \/ ListUpdate \/ ListDelete \/ ListList \/ Tick

ListSpec == Init /\ [][ListNext]_vars

\* the records of md that a query for tag selects, by their keys
Matching(md, tag) == {k \in Keys(md) : tag = NoTag \/ tag \in get_file_entry(md, k).tags}

---------------------------------------------------------------------------
(* FilesSpec: CloudServer.get_files over the index. Records are added and  *)
(* deleted through MetadataManager; the clock stands still.                *)

\* MetadataManager.file_count
file_count(md) == Len(md)

\* "if files_request.tag:": None and the empty string are both false
Truthy(tag) == tag # NoTag /\ tag # ""

\* sum(1 for entry in self._metadata.values() if files_request.tag in entry.tags)
CountTagged(md, tag) == Len(SelectSeq(md, LAMBDA e : tag \in e.val.tags))

\* CloudServer.get_files: the files and the total of the response
get_files(md, tag, offset, limit) ==
    [files |-> list_files(md, tag, offset, limit),
     total |-> IF Truthy(tag) THEN CountTagged(md, tag) ELSE file_count(md)]

GetFilesResponse(tag, offset, limit, r) ==
    [op |-> "get_files", tag |-> tag, offset |-> offset, limit |-> limit, files |-> r.files, total |-> r.total]

\* GetFilesRequest: tag: str | None, offset >= 0, 1 <= limit <= 1000
FilterTags == {NoTag, "", "x", "y"}

Offsets == 0..1

Limits == {1, 3}

GetFiles(tag, offset, limit) ==
    /\ pc = "idle"
    /\ resp' = GetFilesResponse(tag, offset, limit, get_files(metadata, tag, offset, limit))
    /\ UNCHANGED <<metadata, snapshot, tmpfile, disk, dirs, clock, faults, pc, call>>

FilesGet == \E t \in FilterTags, o \in Offsets, l \in Limits : GetFiles(t, o, l)

FilesNext == ListAdd \/ ListDelete \/ FilesGet

FilesSpec == Init /\ [][FilesNext]_vars

\* C21: for every index state and every ListFiles request (any tag filter, the empty
\* string included, any offset and limit) the returned total is the number of records
\* matching the filter that selected the returned records, and no more records are
\* returned than that total.
C21_TotalCountsTheFilter ==
    /\ \A tag \in FilterTags, offset \in Offsets, limit \in Limits :
          LET r == get_files(metadata, tag, offset, limit)
          IN  /\ r.total = Cardinality(Matching(metadata, tag))
              /\ Len(r.files) <= r.total
    /\ resp.op = "get_files" => resp.total = Cardinality(Matching(metadata, resp.tag))

---------------------------------------------------------------------------
(* LoadSpec: MetadataManager is constructed over whatever the metadata     *)
(* file is: missing, a complete text, or a text that does not parse. The   *)
(* process can stop and a new one be constructed over the same file.       *)

\* what _load_metadata leaves: the mapping, the canonical file, whether it raised, and
\* the branch it took
LoadResult(md, snap, raised, branch) == [metadata |-> md, snapshot |-> snap, raised |-> raised, branch |-> branch]

\* the steps of reading an existing file that can raise: "none" or "open"
LoadFails == {"none", "open"}

\* Variant of the missing-file branch that does not write the file.
InitializeEmpty_Unsaved(snap, sfail) == LoadResult(<<>>, snap, FALSE, "missing")

\* _load_metadata, "if not self.metadata_filepath.exists()": empty mapping, saved
InitializeEmpty(snap, sfail) == LoadResult(<<>>, _save_metadata_atomic(<<>>, snap, sfail).snapshot, _save_metadata_atomic(<<>>, snap, sfail).raised, "missing")

\* Variant of the except branch that starts from an empty mapping and saves it.
LoadFailed_StartEmpty(snap) == LoadResult(<<>>, Serialize(<<>>), FALSE, "existing")

\* _load_metadata, "except Exception: ... raise": self._metadata is still the {} of
\* __init__, the file is not touched
LoadFailed(snap) == LoadResult(<<>>, snap, TRUE, "existing")

\* MetadataManager._load_metadata
_load_metadata(snap, lfail, sfail) ==
    IF ~snap.exists THEN InitializeEmpty(snap, sfail)
    ELSE IF lfail = "open" \/ ~Parseable(snap) THEN LoadFailed(snap)
    ELSE LoadResult(Parse(snap), snap, FALSE, "existing")

LoadResponse(r) == [op |-> "load", branch |-> r.branch, raised |-> r.raised]

\* a text cut short: json.load raises on it
Truncated(f) == [f EXCEPT !.closed = FALSE]

OneRecord == <<Entry("a.txt", FileMetadata("a.txt", "text/plain", 1, {}, 0, 0))>>

StartSnapshots == {NoFile, Serialize(<<>>), Serialize(OneRecord), Truncated(Serialize(<<>>)), Truncated(Serialize(OneRecord))}

LoadInit ==
    /\ metadata = <<>>
    /\ snapshot \in StartSnapshots
    /\ tmpfile = NoFile
    /\ disk = EmptyDisk
    /\ dirs = {}
    /\ clock = 0
    /\ resp = Response("init", NoPath, "OK", NoPath, {})
    /\ faults = 0
    /\ pc = "down"
    /\ call = NoCall

\* MetadataManager.__init__
Load(lfail, sfail) ==
    /\ pc = "down"
    /\ LET r == _load_metadata(snapshot, lfail, sfail)
       IN  /\ metadata' = r.metadata
           /\ snapshot' = r.snapshot
           /\ pc' = IF r.raised THEN "down" ELSE "idle"
           /\ resp' = LoadResponse(r)
    /\ UNCHANGED <<tmpfile, disk, dirs, clock, faults, call>>

\* the process ends: the memory is lost, the file stays
Stop ==
    /\ pc = "idle"
    /\ pc' = "down"
    /\ metadata' = <<>>
    /\ UNCHANGED <<snapshot, tmpfile, disk, dirs, clock, resp, faults, call>>

LoadLoad == \E lf \in LoadFails, sf \in SaveFails : Load(lf, sf)

LoadNext == LoadLoad \/ ListAdd \/ ListDelete \/ Stop

LoadSpec == LoadInit /\ [][LoadNext]_vars

\* C22: constructing the index when no snapshot file exists yields an empty mapping
\* and creates the file holding the empty mapping at once, so that a later
\* construction on the same path loads an empty mapping.
C22_MissingSnapshotStartsEmpty ==
    /\ ~snapshot.exists =>
          LET r == _load_metadata(snapshot, "none", "none")
          IN  /\ ~r.raised
              /\ r.metadata = <<>>
              /\ r.snapshot.exists
              /\ r.snapshot = Serialize(<<>>)
              /\ ~_load_metadata(r.snapshot, "none", "none").raised
              /\ _load_metadata(r.snapshot, "none", "none").metadata = <<>>
    /\ (resp.op = "load" /\ resp.branch = "missing" /\ ~resp.raised) =>
          /\ metadata = <<>>
          /\ snapshot = Serialize(<<>>)

\* a construction found no file and returned: the mapping is empty and the file holds
\* the empty mapping
C22_Witness ==
    /\ resp.op = "load" /\ resp.branch = "missing" /\ ~resp.raised
    /\ pc = "idle"
    /\ metadata = <<>>
    /\ snapshot = Serialize(<<>>)

\* C23: constructing the index on an existing snapshot that is malformed or unreadable
\* raises to the caller and leaves the file as it is: it is never replaced by an empty
\* snapshot nor discarded.
C23_BadSnapshotRaisesUntouched ==
    /\ \A lf \in LoadFails, sf \in SaveFails :
          (snapshot.exists /\ (~Parseable(snapshot) \/ lf = "open")) =>
              /\ _load_metadata(snapshot, lf, sf).raised
              /\ _load_metadata(snapshot, lf, sf).snapshot = snapshot
    /\ (resp.op = "load" /\ resp.branch = "existing" /\ ~Parseable(snapshot)) =>
          /\ resp.raised
          /\ pc = "down"
          /\ snapshot \in StartSnapshots

\* a construction over a text that does not parse raised, and the text is still there
C23_Witness ==
    /\ resp.op = "load" /\ resp.branch = "existing" /\ resp.raised
    /\ snapshot = Truncated(Serialize(OneRecord))
    /\ pc = "down"

---------------------------------------------------------------------------
(* Properties of the index calls, in ListSpec *)

\* C24: update_file_entry(p, changes) with a new path q different from p re-keys the
\* record: afterwards p is absent, q maps to the record, the record count is as
\* before, mime_type, size and uploaded_at are preserved and updated_at is refreshed;
\* every successful update, with or without a new path, keeps uploaded_at and
\* refreshes updated_at.
C24_UpdateRekeys ==
    \A p \in Keys(metadata), tg \in ListTagSets, q \in ListPaths \cup {NoPath} :
        LET r == update_file_entry(metadata, snapshot, p, [tags |-> tg, filepath |-> q], clock, "none")
            k == IF q = NoPath THEN p ELSE q
            old == get_file_entry(metadata, p)
        IN  /\ ~r.raised
            /\ _file_exists(r.metadata, k)
            /\ get_file_entry(r.metadata, k).uploaded_at = old.uploaded_at
            /\ get_file_entry(r.metadata, k).updated_at = clock
            /\ get_file_entry(r.metadata, k).tags = tg
            /\ (q # NoPath /\ q # p) =>
                  /\ ~_file_exists(r.metadata, p)
                  /\ get_file_entry(r.metadata, q).filepath = q
                  /\ get_file_entry(r.metadata, q).mime_type = old.mime_type
                  /\ get_file_entry(r.metadata, q).size = old.size
                  /\ file_count(r.metadata) = file_count(metadata)

\* The index has no batch call: a batch goes through add_file_entry or
\* delete_file_entry, one call per element, and the first call that raises ends it.
\* saves counts the calls of _save_metadata_atomic.
BatchResult(md, snap, raised, saves) == [metadata |-> md, snapshot |-> snap, raised |-> raised, saves |-> saves]

\* add_file_entry for each record of the batch
RECURSIVE AddEach(_, _, _, _)
AddEach(md, snap, records, saves) ==
    IF records = <<>> THEN BatchResult(md, snap, FALSE, saves)
    ELSE LET r == add_file_entry(md, snap, Head(records), "none")
         IN  IF r.raised THEN BatchResult(r.metadata, r.snapshot, TRUE, saves)
             ELSE AddEach(r.metadata, r.snapshot, Tail(records), saves + 1)

\* delete_file_entry for each path of the batch
RECURSIVE DeleteEach(_, _, _, _)
DeleteEach(md, snap, paths, saves) ==
    IF paths = <<>> THEN BatchResult(md, snap, FALSE, saves)
    ELSE LET r == delete_file_entry(md, snap, Head(paths), "none")
         IN  IF r.raised THEN BatchResult(r.metadata, r.snapshot, TRUE, saves)
             ELSE DeleteEach(r.metadata, r.snapshot, Tail(paths), saves + 1)

\* batches of at most two paths
PathBatches == {<<>>} \cup {<<p>> : p \in ListPaths} \cup {<<p, q>> : p \in ListPaths, q \in {"c.txt"}}

\* the records a batch insert is given for the paths of b
BatchRecords(b) == [i \in 1..Len(b) |-> new_current_instance(b[i], "text/plain", 1, {"x"}, clock)]

BatchPaths(b) == {b[i] : i \in 1..Len(b)}

\* C25: the batch insert puts in every given record whose path is absent, skips the
\* records whose path is present without raising and without altering the existing
\* record, is idempotent, and persists the snapshot once if something was inserted
\* and not at all otherwise.
C25_BatchInsertSkipsPresent ==
    \A b \in PathBatches :
        LET r == AddEach(metadata, snapshot, BatchRecords(b), 0)
        IN  /\ ~r.raised
            /\ Keys(r.metadata) = Keys(metadata) \cup BatchPaths(b)
            /\ \A k \in Keys(metadata) : get_file_entry(r.metadata, k) = get_file_entry(metadata, k)
            /\ AddEach(r.metadata, r.snapshot, BatchRecords(b), 0).metadata = r.metadata
            /\ ~AddEach(r.metadata, r.snapshot, BatchRecords(b), 0).raised
            /\ r.saves = IF BatchPaths(b) \subseteq Keys(metadata) THEN 0 ELSE 1

\* C26: the batch delete removes every given path that is present, skips the absent
\* paths without raising, and persists the snapshot once if something was deleted and
\* not at all otherwise.
C26_BatchDeleteSkipsAbsent ==
    \A b \in PathBatches :
        LET r == DeleteEach(metadata, snapshot, b, 0)
        IN  /\ ~r.raised
            /\ Keys(r.metadata) = Keys(metadata) \ BatchPaths(b)
            /\ r.saves = IF BatchPaths(b) \cap Keys(metadata) = {} THEN 0 ELSE 1

---------------------------------------------------------------------------
(* IndexSpec: the calls of MetadataManager with every outcome, the raising *)
(* ones included; the save of a call can fail, which leaves the snapshot   *)
(* behind the mapping.                                                     *)

IndexResponse(op, filepath, r) == [op |-> op, filepath |-> filepath, error |-> r.error, saved |-> r.saved]

IndexCall(op, filepath, r) ==
    /\ pc = "idle"
    /\ metadata' = r.metadata
    /\ snapshot' = r.snapshot
    /\ resp' = IndexResponse(op, filepath, r)
    /\ UNCHANGED <<tmpfile, disk, dirs, clock, faults, pc, call>>

IndexAdd ==
    \E p \in Paths, sf \in SaveFails :
        IndexCall("add", p, add_file_entry(metadata, snapshot, new_current_instance(p, "text/plain", 1, {}, clock), sf))

IndexUpdate ==
    \E p \in Paths, tg \in TagSets, q \in Paths \cup {NoPath}, sf \in SaveFails :
        IndexCall("update", p, update_file_entry(metadata, snapshot, p, [tags |-> tg, filepath |-> q], clock, sf))

IndexDelete ==
    \E p \in Paths, sf \in SaveFails :
        IndexCall("delete", p, delete_file_entry(metadata, snapshot, p, sf))

IndexNext == IndexAdd \/ IndexUpdate \/ IndexDelete

IndexSpec == Init /\ [][IndexNext]_vars

\* the call left mapping and snapshot as they are and wrote nothing
Untouched(r) == r.metadata = metadata /\ r.snapshot = snapshot /\ ~r.saved

\* C27: index calls whose key precondition fails raise and change nothing:
\* add_file_entry for a present path raises ValueError, update_file_entry and
\* delete_file_entry for an absent path raise KeyError; mapping and snapshot are
\* unchanged and no snapshot write is performed.
C27_FailedKeyTestChangesNothing ==
    /\ \A p \in Paths, sf \in SaveFails :
          IF _file_exists(metadata, p)
          THEN LET r == add_file_entry(metadata, snapshot, new_current_instance(p, "text/plain", 1, {"x"}, Later), sf)
               IN  r.raised /\ r.error = "ValueError" /\ Untouched(r)
          ELSE /\ LET r == delete_file_entry(metadata, snapshot, p, sf)
                  IN  r.raised /\ r.error = "KeyError" /\ Untouched(r)
               /\ \A tg \in TagSets, q \in Paths \cup {NoPath} :
                     LET r == update_file_entry(metadata, snapshot, p, [tags |-> tg, filepath |-> q], Later, sf)
                     IN  r.raised /\ r.error = "KeyError" /\ Untouched(r)
    /\ (resp.op \in {"add", "update", "delete"} /\ resp.error \in {"ValueError", "KeyError"}) => ~resp.saved

\* an add_file_entry for a present path raised ValueError while the snapshot was behind
\* the mapping, and the snapshot is still behind
C27_Witness ==
    /\ resp.op = "add" /\ resp.error = "ValueError" /\ ~resp.saved
    /\ _file_exists(metadata, resp.filepath)
    /\ snapshot # Serialize(metadata)

---------------------------------------------------------------------------
(* ThreadSpec: two threads call the mutating operations of one              *)
(* MetadataManager while a third reads it. A call is run statement by      *)
(* statement; the threads interleave between statements. pc maps a writer  *)
(* to its position, call holds the owner of self._lock, the arguments and  *)
(* locals of the calls and the mapping at the start, resp maps a thread to *)
(* what its call returned or its read observed.                            *)

Writers == {"t1", "t2"}

Reader == "r"

NoThread == "nobody"

\* the arguments of a call
Req(op, filepath, tags, new_filepath) == [op |-> op, filepath |-> filepath, tags |-> tags, new_filepath |-> new_filepath]

NoReq == Req("none", NoPath, {}, NoPath)

ThreadRequests ==
    {Req("add", p, {"x"}, NoPath) : p \in Paths} \cup {Req("delete", p, {}, NoPath) : p \in Paths}
        \cup {Req("update", p, {"x"}, q) : p \in Paths, q \in Paths \cup {NoPath}}

NoObs == [op |-> "none"]

\* the record no local holds
NoRecord == FileMetadata(NoPath, "", 0, {}, 0, 0)

StartMappings ==
    {<<>>,
     <<Entry("a.txt", FileMetadata("a.txt", "text/plain", 1, {}, 0, 0))>>,
     <<Entry("a.txt", FileMetadata("a.txt", "text/plain", 1, {}, 0, 0)), Entry("d/b.txt", FileMetadata("d/b.txt", "text/plain", 1, {}, 0, 0))>>}

ThreadInit ==
    /\ metadata \in StartMappings
    /\ snapshot = Serialize(metadata)
    /\ tmpfile = NoFile
    /\ disk = EmptyDisk
    /\ dirs = {}
    /\ clock = 0
    /\ resp = [t \in Writers \cup {Reader} |-> NoObs]
    /\ faults = 0
    /\ pc = [t \in Writers |-> "idle"]
    /\ call = [lock |-> NoThread, req |-> [t \in Writers |-> NoReq], held |-> [t \in Writers |-> NoRecord], start |-> metadata]

\* Variant of the lock that never blocks.
LockFree_Always(lock, t) == TRUE

\* threading.RLock: free, or already owned by the thread
LockFree(lock, t) == lock = NoThread \/ lock = t

\* leaving "with self._lock:", normally or by an exception
Released(lock, t) == IF lock = t THEN NoThread ELSE lock

\* Variant of the calls that leaves the lock before _save_metadata_atomic.
EnterSave_Unlocked(lock, t) == Released(lock, t)

\* self._save_metadata_atomic() is called inside "with self._lock:"
EnterSave(lock, t) == lock

\* the call of t returns, or raises error
Return(t, error) ==
    /\ pc' = [pc EXCEPT ![t] = "done"]
    /\ resp' = [resp EXCEPT ![t] = [op |-> call.req[t].op, error |-> error]]
    /\ call' = [call EXCEPT !.lock = Released(@, t)]

\* a thread enters add_file_entry, delete_file_entry or update_file_entry
Begin(t, req) ==
    /\ pc[t] = "idle"
    /\ pc' = [pc EXCEPT ![t] = "lock"]
    /\ call' = [call EXCEPT !.req[t] = req]
    /\ UNCHANGED <<metadata, snapshot, tmpfile, disk, dirs, clock, resp, faults>>

\* with self._lock:
Acquire(t) ==
    /\ pc[t] = "lock"
    /\ LockFree(call.lock, t)
    /\ call' = [call EXCEPT !.lock = t]
    /\ pc' = [pc EXCEPT ![t] = "test"]
    /\ UNCHANGED <<metadata, snapshot, tmpfile, disk, dirs, clock, resp, faults>>

\* if self._file_exists(...) / if not self._file_exists(...): raise
Test(t) ==
    /\ pc[t] = "test"
    /\ LET req == call.req[t]
       IN  IF req.op = "add" /\ _file_exists(metadata, req.filepath) THEN Return(t, "ValueError")
           ELSE IF req.op # "add" /\ ~_file_exists(metadata, req.filepath) THEN Return(t, "KeyError")
           ELSE /\ pc' = [pc EXCEPT ![t] = IF req.op = "add" THEN "put" ELSE IF req.op = "delete" THEN "del" ELSE "read"]
                /\ UNCHANGED <<resp, call>>
    /\ UNCHANGED <<metadata, snapshot, tmpfile, disk, dirs, clock, faults>>

\* add_file_entry: self._metadata[file_metadata.filepath] = file_metadata
Put(t) ==
    /\ pc[t] = "put"
    /\ call.req[t].op = "add"
    /\ metadata' = AddEntry(metadata, new_current_instance(call.req[t].filepath, "text/plain", 1, call.req[t].tags, clock))
    /\ pc' = [pc EXCEPT ![t] = "open"]
    /\ call' = [call EXCEPT !.lock = EnterSave(@, t)]
    /\ UNCHANGED <<snapshot, tmpfile, disk, dirs, clock, resp, faults>>

\* delete_file_entry: del self._metadata[filepath] (KeyError when the key is gone)
Del(t) ==
    /\ pc[t] = "del"
    /\ IF _file_exists(metadata, call.req[t].filepath)
       THEN /\ metadata' = DeleteEntry(metadata, call.req[t].filepath)
            /\ pc' = [pc EXCEPT ![t] = "open"]
            /\ call' = [call EXCEPT !.lock = EnterSave(@, t)]
            /\ UNCHANGED resp
       ELSE /\ Return(t, "KeyError")
            /\ UNCHANGED metadata
    /\ UNCHANGED <<snapshot, tmpfile, disk, dirs, clock, faults>>

\* update_file_entry: metadata_dict = self._metadata[filepath].model_dump();
\* metadata_dict.update(updates)
ReadRecord(t) ==
    /\ pc[t] = "read"
    /\ LET req == call.req[t]
       IN  IF _file_exists(metadata, req.filepath)
           THEN /\ call' = [call EXCEPT !.held[t] =
                               [get_file_entry(metadata, req.filepath) EXCEPT
                                   !.tags = req.tags,
                                   !.filepath = IF req.new_filepath # NoPath THEN req.new_filepath ELSE @]]
                /\ pc' = [pc EXCEPT ![t] = "store"]
                /\ UNCHANGED resp
           ELSE Return(t, "KeyError")
    /\ UNCHANGED <<metadata, snapshot, tmpfile, disk, dirs, clock, faults>>

\* update_file_entry: self._metadata[filepath] = FileMetadata.model_validate(metadata_dict)
Store(t) ==
    /\ pc[t] = "store"
    /\ metadata' = DictSet(metadata, call.req[t].filepath, call.held[t])
    /\ pc' = [pc EXCEPT ![t] = "stamp"]
    /\ UNCHANGED <<snapshot, tmpfile, disk, dirs, clock, resp, faults, call>>

\* update_file_entry: self._metadata[filepath].updated_at = current_timestamp(); then
\* the test "new_filepath and new_filepath != filepath"
Stamp(t) ==
    /\ pc[t] = "stamp"
    /\ LET req == call.req[t]
       IN  IF _file_exists(metadata, req.filepath)
           THEN /\ metadata' = DictSet(metadata, req.filepath, [get_file_entry(metadata, req.filepath) EXCEPT !.updated_at = clock])
                /\ IF req.new_filepath # NoPath /\ req.new_filepath # req.filepath
                   THEN /\ pc' = [pc EXCEPT ![t] = "pop"]
                        /\ UNCHANGED call
                   ELSE /\ pc' = [pc EXCEPT ![t] = "open"]
                        /\ call' = [call EXCEPT !.lock = EnterSave(@, t)]
                /\ UNCHANGED resp
           ELSE /\ Return(t, "KeyError")
                /\ UNCHANGED metadata
    /\ UNCHANGED <<snapshot, tmpfile, disk, dirs, clock, faults>>

\* update_file_entry: self._metadata.pop(filepath), the right-hand side of the re-key
Pop(t) ==
    /\ pc[t] = "pop"
    /\ IF _file_exists(metadata, call.req[t].filepath)
       THEN /\ call' = [call EXCEPT !.held[t] = get_file_entry(metadata, call.req[t].filepath)]
            /\ metadata' = DictDel(metadata, call.req[t].filepath)
            /\ pc' = [pc EXCEPT ![t] = "rekey"]
            /\ UNCHANGED resp
       ELSE /\ Return(t, "KeyError")
            /\ UNCHANGED metadata
    /\ UNCHANGED <<snapshot, tmpfile, disk, dirs, clock, faults>>

\* update_file_entry: self._metadata[new_filepath] = the popped record
Rekey(t) ==
    /\ pc[t] = "rekey"
    /\ metadata' = DictSet(metadata, call.req[t].new_filepath, call.held[t])
    /\ pc' = [pc EXCEPT ![t] = "open"]
    /\ call' = [call EXCEPT !.lock = EnterSave(@, t)]
    /\ UNCHANGED <<snapshot, tmpfile, disk, dirs, clock, resp, faults>>

\* _save_metadata_atomic: temp_filepath.open("w")
ThreadOpen(t) ==
    /\ pc[t] = "open"
    /\ tmpfile' = OpenFile
    /\ pc' = [pc EXCEPT ![t] = "dump"]
    /\ UNCHANGED <<metadata, snapshot, disk, dirs, clock, resp, faults, call>>

\* _save_metadata_atomic: json.dump of the mapping as it is now, and the end of the
\* with block
ThreadDump(t) ==
    /\ pc[t] = "dump"
    /\ tmpfile' = Serialize(metadata)
    /\ pc' = [pc EXCEPT ![t] = "replace"]
    /\ UNCHANGED <<metadata, snapshot, disk, dirs, clock, resp, faults, call>>

\* _save_metadata_atomic: temp_filepath.replace(self.metadata_filepath), which raises
\* when the temporary file is gone; then the call returns
ThreadReplace(t) ==
    /\ pc[t] = "replace"
    /\ IF tmpfile.exists
       THEN /\ snapshot' = tmpfile
            /\ tmpfile' = NoFile
            /\ Return(t, "none")
       ELSE /\ Return(t, "OSError")
            /\ UNCHANGED <<snapshot, tmpfile>>
    /\ UNCHANGED <<metadata, disk, dirs, clock, faults>>

\* the mappings between calls: the one of the canonical file and, while a call owns
\* the lock, the one that call leaves
ApplyReq(md, req) ==
    IF req.op = "add" THEN add_file_entry(md, Serialize(md), new_current_instance(req.filepath, "text/plain", 1, req.tags, clock), "none")
    ELSE IF req.op = "delete" THEN delete_file_entry(md, Serialize(md), req.filepath, "none")
    ELSE update_file_entry(md, Serialize(md), req.filepath, [tags |-> req.tags, filepath |-> req.new_filepath], clock, "none")

SettledMappings ==
    {Parse(snapshot)} \cup {ApplyReq(Parse(snapshot), call.req[t]).metadata : t \in {w \in Writers : call.lock = w}}

\* a read by the reader thread: what it saw, and what the mappings between calls show
Observe(op, filepath, value, settled) ==
    /\ resp' = [resp EXCEPT ![Reader] = [op |-> op, filepath |-> filepath, value |-> value, settled |-> settled]]
    /\ UNCHANGED <<metadata, snapshot, tmpfile, disk, dirs, clock, faults, pc, call>>

\* MetadataManager.file_count: len(self._metadata), no lock taken
ReadCount == Observe("file_count", NoPath, file_count(metadata), {file_count(m) : m \in SettledMappings})

\* MetadataManager._file_exists: filepath in self._metadata, no lock taken
ReadExists(filepath) == Observe("_file_exists", filepath, _file_exists(metadata, filepath), {_file_exists(m, filepath) : m \in SettledMappings})

\* MetadataManager.get_file_entry: self._metadata.get(filepath) under the lock
ReadEntry(filepath) ==
    /\ LockFree(call.lock, Reader)
    /\ Observe("get_file_entry", filepath, _file_exists(metadata, filepath), {_file_exists(m, filepath) : m \in SettledMappings})

ThreadBegin == \E t \in Writers, req \in ThreadRequests : Begin(t, req)

ThreadStep ==
    \E t \in Writers :
        \/ Acquire(t) \/ Test(t) \/ Put(t) \/ Del(t) \/ ReadRecord(t) \/ Store(t) \/ Stamp(t)
        \/ Pop(t) \/ Rekey(t) \/ ThreadOpen(t) \/ ThreadDump(t) \/ ThreadReplace(t)

ThreadRead == ReadCount \/ (\E p \in Paths : ReadExists(p)) \/ (\E p \in Paths : ReadEntry(p))

ThreadNext == ThreadBegin \/ ThreadStep \/ ThreadRead

ThreadSpec == ThreadInit /\ [][ThreadNext]_vars

---------------------------------------------------------------------------
(* Properties of concurrent index calls, in ThreadSpec *)

SaveSteps == {"open", "dump", "replace"}

InSave(t) == pc[t] \in SaveSteps

AllReturned == \A t \in Writers : pc[t] = "done"

\* what the two calls leave when a runs to its end before b starts
Sequential(a, b) ==
    LET r1 == ApplyReq(call.start, call.req[a])
        r2 == ApplyReq(r1.metadata, call.req[b])
    IN  [metadata |-> r2.metadata, errors |-> [t \in Writers |-> IF t = a THEN r1.error ELSE r2.error]]

Orders == {<<"t1", "t2">>, <<"t2", "t1">>}

\* C28: under any interleaving of concurrent mutating index calls the write-temp +
\* rename sequence of one call never interleaves with that of another (it runs under
\* the lock); when all calls have returned without I/O failure the snapshot equals the
\* in-memory mapping and reflects every successful mutation: the mapping is what the
\* calls leave in one of their two orders.
C28_SavesNeverInterleave ==
    /\ \A t \in Writers, u \in Writers : (InSave(t) /\ InSave(u)) => t = u
    /\ \A t \in Writers : InSave(t) => call.lock = t
    /\ (AllReturned /\ \A t \in Writers : resp[t].error # "OSError") =>
          /\ snapshot = Serialize(metadata)
          /\ tmpfile = NoFile
          /\ metadata \in {Sequential(o[1], o[2]).metadata : o \in Orders}

\* two concurrent calls that add different paths have both returned: both records are
\* in the mapping and in the snapshot
C28_Witness ==
    /\ AllReturned
    /\ call.start = <<>>
    /\ \A t \in Writers : call.req[t].op = "add" /\ resp[t].error = "none"
    /\ Keys(metadata) = Paths
    /\ snapshot = Serialize(metadata)

\* C29: every read of the mapping is made under the index lock, so a reader running
\* beside update_file_entry never observes an intermediate state (a mapping that is
\* mid-re-key): what a read returns is what a mapping between calls shows.
C29_ReadsSeeSettledMapping ==
    resp[Reader].op # "none" => resp[Reader].value \in resp[Reader].settled

\* C30: the lock is held across each check-then-act sequence: of two concurrent
\* add_file_entry calls with the same path exactly one inserts and the other finds the
\* path present; of a concurrent update_file_entry and delete_file_entry on the same
\* path, the update never re-keys or writes a record the delete has removed: the calls
\* return, and leave, what they do in one of their two orders.
C30_CheckThenActUnderLock ==
    AllReturned =>
        /\ (call.req["t1"].op = "add" /\ call.req["t2"] = call.req["t1"] /\ ~_file_exists(call.start, call.req["t1"].filepath)) =>
              /\ {resp["t1"].error, resp["t2"].error} = {"none", "ValueError"}
              /\ _file_exists(metadata, call.req["t1"].filepath)
        /\ \A a \in Writers, b \in Writers :
              (call.req[a].op = "update" /\ call.req[b].op = "delete" /\ call.req[a].filepath = call.req[b].filepath) =>
                  /\ [metadata |-> metadata, errors |-> [t \in Writers |-> resp[t].error]] \in {Sequential(o[1], o[2]) : o \in Orders}
                  /\ resp[b].error = "none" => ~_file_exists(metadata, call.req[b].filepath)

\* two concurrent add_file_entry calls for one absent path have returned: one inserted,
\* the other raised ValueError
C30_Witness ==
    /\ AllReturned
    /\ call.req["t1"].op = "add" /\ call.req["t2"] = call.req["t1"]
    /\ ~_file_exists(call.start, call.req["t1"].filepath)
    /\ {resp["t1"].error, resp["t2"].error} = {"none", "ValueError"}
    /\ _file_exists(metadata, call.req["t1"].filepath)

---------------------------------------------------------------------------
(* UploadSpec: two post_file coroutines for one path on the event loop.     *)
(* A coroutine runs without interruption between two "await file.read"; the *)
(* loop may resume the other one at each of them. An open file is an inode: *)
(* unlinking the path leaves the handles that were open on it writing to a  *)
(* file no path names any more.                                             *)

Uploads == {"u1", "u2"}

NoUpload == [stream |-> <<>>, i |-> 1, file_size |-> 0, pos |-> 0, linked |-> FALSE]

UploadInit ==
    /\ metadata = <<>>
    /\ snapshot = Serialize(metadata)
    /\ tmpfile = NoFile
    /\ disk = EmptyDisk
    /\ dirs = {}
    /\ clock = 0
    /\ resp = [u \in Uploads |-> Response("none", NoPath, "none", NoPath, {})]
    /\ faults = 0
    /\ pc = [u \in Uploads |-> "idle"]
    /\ call \in {[path |-> p, up |-> [u \in Uploads |-> NoUpload]] : p \in Paths}

\* full_path.unlink(missing_ok=True): the path names no file, and no open handle
\* reaches a file through it
UnlinkOpen(up) == [u \in Uploads |-> [up[u] EXCEPT !.linked = FALSE]]

\* f.write(chunk) through a handle at position pos
WriteChunk(d, p, h, n) ==
    IF h.linked /\ Exists(d, p)
    THEN WriteFile(d, p, IF d[Loc(p)] > h.pos + n THEN d[Loc(p)] ELSE h.pos + n)
    ELSE d

UploadReturn(u, code) ==
    /\ resp' = [resp EXCEPT ![u] = Response("post", call.path, code, call.path, {})]
    /\ pc' = [pc EXCEPT ![u] = "done"]

\* post_file up to its first "await file.read": the duplicate check, the parent
\* directories, and open("wb"), which creates the file or truncates the one there
UploadOpen(u, stream) ==
    /\ pc[u] = "idle"
    /\ IF AlreadyExists(metadata, call.path)
       THEN /\ UploadReturn(u, "CONFLICT")
            /\ UNCHANGED <<disk, dirs, call>>
       ELSE /\ dirs' = Mkdir(dirs, call.path)
            /\ disk' = WriteFile(disk, call.path, 0)
            /\ call' = [call EXCEPT !.up[u] = [stream |-> stream, i |-> 1, file_size |-> 0,
                                               pos |-> 0, linked |-> TRUE]]
            /\ pc' = [pc EXCEPT ![u] = "read"]
            /\ UNCHANGED resp
    /\ UNCHANGED <<metadata, snapshot, tmpfile, clock, faults>>

\* one round of the loop: a chunk arrives, the total is checked, the chunk is written
UploadChunk(u) ==
    /\ pc[u] = "read"
    /\ call.up[u].i <= Len(call.up[u].stream)
    /\ LET h == call.up[u]
           n == h.stream[h.i]
       IN  IF TooLarge(h.file_size + n)
           THEN /\ disk' = Unlink(disk, call.path)
                /\ call' = [call EXCEPT !.up = UnlinkOpen(call.up)]
                /\ UploadReturn(u, "BAD_REQUEST")
           ELSE /\ disk' = WriteChunk(disk, call.path, h, n)
                /\ call' = [call EXCEPT !.up[u] = [h EXCEPT !.i = h.i + 1,
                                                            !.file_size = h.file_size + n,
                                                            !.pos = h.pos + n]]
                /\ UNCHANGED <<resp, pc>>
    /\ UNCHANGED <<metadata, snapshot, tmpfile, dirs, clock, faults>>

\* the read that returns b"": the file is closed and add_file_entry is called; when
\* it raises, "except Exception" unlinks full_path
UploadAdd(u) ==
    /\ pc[u] = "read"
    /\ call.up[u].i > Len(call.up[u].stream)
    /\ LET fm == new_current_instance(call.path, GuessType(call.path),
                                      call.up[u].file_size, {}, clock)
           a == add_file_entry(metadata, snapshot, fm, "none")
       IN  /\ metadata' = a.metadata
           /\ snapshot' = a.snapshot
           /\ IF a.raised
              THEN /\ disk' = Unlink(disk, call.path)
                   /\ call' = [call EXCEPT !.up = UnlinkOpen(call.up)]
                   /\ UploadReturn(u, "INTERNAL_SERVER_ERROR")
              ELSE /\ UploadReturn(u, "OK")
                   /\ UNCHANGED <<disk, call>>
    /\ UNCHANGED <<tmpfile, dirs, clock, faults>>

UploadBegin == \E u \in Uploads, s \in Streams : UploadOpen(u, s)
UploadRead == \E u \in Uploads : UploadChunk(u)
UploadEnd == \E u \in Uploads : UploadAdd(u)

UploadNext == UploadBegin \/ UploadRead \/ UploadEnd

UploadSpec == UploadInit /\ [][UploadNext]_vars

BothReturned == \A u \in Uploads : pc[u] = "done"

\* both calls passed the duplicate check before either added its record
Overlapped == \A u \in Uploads : resp[u].code # "CONFLICT"

\* C31 as stated: of two PutFile calls for one path that is not indexed which both
\* pass the duplicate check before either adds its record, at most one returns
\* success; and once both have returned, a record the index holds for the path has
\* its file on disk, of the size the record tells.
C31_OverlappingPutsLeaveFileOfRecord ==
    (BothReturned /\ Overlapped)
        => (/\ \E u \in Uploads : resp[u].code # "OK"
            /\ _file_exists(metadata, call.path)
                   => (/\ Exists(disk, call.path)
                       /\ disk[Loc(call.path)] = get_file_entry(metadata, call.path).size))

---------------------------------------------------------------------------
(* PatchSpec: the handlers one at a time with their failures, as in Spec,   *)
(* every upload being one chunk of one byte.                                *)

PatchPut ==
    \E p \in Paths, ct \in ContentTypes, f \in PostFails : post_file(p, <<1>>, ct, f)

PatchMove ==
    \E p \in Paths, e \in TagEdits, q \in Paths \cup {NoPath}, f \in PatchFails :
        patch_file(p, e[1], e[2], q, f)

PatchDrop == \E p \in Paths, f \in DeleteFails : delete_file(p, f)

PatchNext == PatchPut \/ PatchMove \/ PatchDrop

PatchSpec == Init /\ [][PatchNext]_vars

\* C32: when the index update of a PatchFile fails after the file was renamed and
\* the rename back fails too, PatchFile is still answered InternalError with the
\* original path and the original tags (the failure of the rollback does not
\* escape), and the rename back is not tried again: the file stays at the new path.
C32_FailedRollbackStillAnswers ==
    \A p \in Paths, q \in Paths, e \in TagEdits :
        LET r == patch_file_result(metadata, snapshot, disk, dirs, Later, p, e[1], e[2], q,
                                   "save_and_rollback")
        IN  r.hit
            => (/\ r.code = "INTERNAL_SERVER_ERROR"
                /\ r.rpath = p
                /\ r.rtags = get_file_entry(metadata, p).tags
                /\ r.disk = Rename(disk, p, q)
                /\ Exists(r.disk, q) /\ ~Exists(r.disk, p))

\* a PatchFile with a new path was answered InternalError and its file is not at the
\* original path: the update failed and so did the rename back
C32_Witness ==
    /\ resp.op = "patch" /\ resp.code = "INTERNAL_SERVER_ERROR"
    /\ resp.rpath = resp.filepath
    /\ faults = 1
    /\ ~Exists(disk, resp.filepath)
    /\ ~_file_exists(metadata, resp.filepath)

\* C33 as stated: the destination check and the rename are made only when the new
\* path differs from the current one: a PatchFile on an indexed p whose new path is p
\* itself, with tag changes within the limits, is not answered Conflict, renames
\* nothing and applies the tag changes.
C33_SamePathIsNoMove ==
    \A p \in Paths, e \in TagEdits :
        LET r == patch_file_result(metadata, snapshot, disk, dirs, Later, p, e[1], e[2], p,
                                   "none")
            new_tags == NewTags(get_file_entry(metadata, p).tags, e[1], e[2])
        IN  (_file_exists(metadata, p) /\ ~TagLimitExceeded(new_tags))
            => (/\ r.code # "CONFLICT"
                /\ r.disk = disk
                /\ _file_exists(r.metadata, p)
                /\ get_file_entry(r.metadata, p).tags = new_tags)

\* the running total after the first n chunks of a stream
Received(stream, n) == Total(SubSeq(stream, 1, n))

\* C34: in a PutFile the running total is checked before each chunk is written: the
\* upload is refused exactly when its cumulative size exceeds the maximum file size
\* (a file of exactly the maximum is accepted), it is refused at the first chunk
\* whose arrival takes the total over the maximum, and at no point does the file at
\* the destination hold more bytes than the maximum.
C34_TotalCheckedBeforeEachWrite ==
    /\ \A l \in DOMAIN disk : disk[l] <= MaxFileSize
    /\ \A u \in Uploads :
          LET h == call.up[u]
          IN  /\ pc[u] = "read" => (/\ h.file_size = Received(h.stream, h.i - 1)
                                       /\ h.file_size <= MaxFileSize)
              /\ (pc[u] = "done" /\ resp[u].code # "CONFLICT")
                     => (/\ (resp[u].code = "BAD_REQUEST") <=> (Total(h.stream) > MaxFileSize)
                         /\ (resp[u].code = "BAD_REQUEST")
                                => (/\ Received(h.stream, h.i - 1) <= MaxFileSize
                                    /\ Received(h.stream, h.i) > MaxFileSize))

\* an upload of exactly the maximum size was accepted, and one over it was refused
C34_Witness ==
    \E u \in Uploads, v \in Uploads :
        /\ pc[u] = "done" /\ resp[u].code = "OK"
        /\ Total(call.up[u].stream) = MaxFileSize
        /\ pc[v] = "done" /\ resp[v].code = "BAD_REQUEST"

---------------------------------------------------------------------------
(* OrderSpec: the index alone under a clock that advances, as in ListSpec,  *)
(* with the insertions written down as they happen: call.order lists the    *)
(* keys of the mapping in the order in which their records were inserted.   *)
(* add_file_entry inserts a record under its key, a re-key removes the      *)
(* record under the old key and inserts it under the new one, a delete      *)
(* removes it.                                                              *)

Without(order, k) == SelectSeq(order, LAMBDA x : x # k)

Inserted(order, k) == Append(Without(order, k), k)

Position(order, k) == CHOOSE i \in 1..Len(order) : order[i] = k

OrderInit ==
    /\ metadata = <<>>
    /\ snapshot = Serialize(<<>>)
    /\ tmpfile = NoFile
    /\ disk = EmptyDisk
    /\ dirs = {}
    /\ clock = 0
    /\ resp = ListResponse("index", NoTag, 0, <<>>)
    /\ faults = 0
    /\ pc = "idle"
    /\ call = [order |-> <<>>]

OrderCall(op, r, order) ==
    /\ ~r.raised
    /\ metadata' = r.metadata
    /\ snapshot' = r.snapshot
    /\ call' = [order |-> order]
    /\ resp' = ListResponse(op, NoTag, 0, <<>>)
    /\ UNCHANGED <<tmpfile, disk, dirs, clock, faults, pc>>

OrderAdd ==
    \E p \in ListPaths :
        OrderCall("add", add_file_entry(metadata, snapshot,
                                 new_current_instance(p, "text/plain", 1, {}, clock), "none"),
                  Inserted(call.order, p))

OrderUpdate ==
    \E p \in ListPaths, q \in ListPaths \cup {NoPath} :
        OrderCall("update", update_file_entry(metadata, snapshot, p, [tags |-> {}, filepath |-> q],
                                    clock, "none"),
                  IF q \in {NoPath, p} THEN call.order ELSE Inserted(Without(call.order, p), q))

OrderDelete ==
    \E p \in ListPaths :
        OrderCall("delete", delete_file_entry(metadata, snapshot, p, "none"), Without(call.order, p))

OrderList ==
    /\ resp' = ListResponse("list", NoTag, Len(metadata),
                            list_files(metadata, NoTag, 0, Len(metadata)))
    /\ UNCHANGED <<metadata, snapshot, tmpfile, disk, dirs, clock, faults, pc, call>>

OrderNext == OrderAdd \/ OrderUpdate \/ OrderDelete \/ OrderList \/ Tick

OrderSpec == OrderInit /\ [][OrderNext]_vars

\* C35 as stated: after any sequence of add, update (re-keys included) and delete
\* calls, the records of equal uploaded_at stand in the list list_files returns in
\* the order in which they were inserted into the index.
C35_TiesInInsertionOrder ==
    LET files == list_files(metadata, NoTag, 0, Len(metadata))
    IN  \A i \in 1..Len(files), j \in 1..Len(files) :
            (i < j /\ files[i].uploaded_at = files[j].uploaded_at)
                => Position(call.order, files[i].filepath)
                       < Position(call.order, files[j].filepath)

\* C36: when the save fails in a mutating index call, the error is raised to the
\* caller, the mapping already holds the change and the canonical file still holds
\* the state before it; and every mutating call whose save succeeds leaves a
\* canonical file equal to the mapping, changes of earlier failed calls included.
C36_FailedSaveLagsUntilNextSave ==
    /\ \A p \in Paths, sf \in SaveFails :
          LET fm == new_current_instance(p, "text/plain", 1, {"x"}, Later)
              a == add_file_entry(metadata, snapshot, fm, sf)
              d == delete_file_entry(metadata, snapshot, p, sf)
          IN  /\ (sf # "none" /\ ~_file_exists(metadata, p))
                     => (/\ a.raised /\ a.error = "OSError"
                         /\ a.metadata = AddEntry(metadata, fm)
                         /\ a.snapshot = snapshot)
              /\ (sf # "none" /\ _file_exists(metadata, p))
                     => (/\ d.raised /\ d.error = "OSError"
                         /\ d.metadata = DeleteEntry(metadata, p)
                         /\ d.snapshot = snapshot
                         /\ \A tg \in TagSets, q \in Paths \cup {NoPath} :
                               LET updates == [tags |-> tg, filepath |-> q]
                                   u == update_file_entry(metadata, snapshot, p, updates,
                                                          Later, sf)
                               IN  /\ u.raised /\ u.error = "OSError"
                                   /\ u.metadata = UpdateEntry(metadata, p, updates, Later)
                                   /\ u.snapshot = snapshot)
              /\ (sf = "none" /\ ~a.raised) => a.snapshot = Serialize(a.metadata)
              /\ (sf = "none" /\ ~d.raised) => d.snapshot = Serialize(d.metadata)
    /\ (resp.op \in {"add", "update", "delete"} /\ resp.saved /\ resp.error = "none")
           => snapshot = Serialize(metadata)
    /\ (resp.op \in {"add", "update", "delete"} /\ snapshot # Serialize(metadata))
           => resp.error # "none"

\* a save failed: the call raised OSError, the mapping holds the added record and the
\* canonical file does not
C36_Witness ==
    /\ resp.op = "add" /\ resp.error = "OSError" /\ resp.saved
    /\ _file_exists(metadata, resp.filepath)
    /\ ~_file_exists(Parse(snapshot), resp.filepath)

\* C37: when a step of _save_metadata_atomic raises (opening or writing the temporary
\* file, or the rename onto the canonical path), the error is raised again to the
\* caller, the canonical file is exactly the one from before the save, and no
\* temporary file is left.
C37_FailedSaveLeavesPriorSnapshot ==
    /\ [][(pc = "except" /\ pc' = "idle")
              => (/\ resp'.op = "save" /\ resp'.code = "OSError"
                  /\ snapshot' = call.old
                  /\ tmpfile' = NoFile)]_vars
    /\ [](pc = "except" => snapshot = call.old)
    /\ []((pc = "idle" /\ resp.op = "save") => ~tmpfile.exists)

\* a save raised at the rename: the caller got the error, the canonical file is the
\* one before the save and lags the mapping, and the temporary file is gone
C37_Witness ==
    /\ pc = "idle"
    /\ resp.op = "save" /\ resp.code = "OSError"
    /\ snapshot # Serialize(metadata)
    /\ ~tmpfile.exists

\* C38: when creating the destination's parent directories or the rename fails in a
\* PatchFile with a new path, PatchFile is answered InternalError with the original
\* path and tags, the index update is not attempted, and the record (path, tags,
\* updated_at), the snapshot and the file at the original path are as before,
\* whatever tag changes the request carried.
C38_FailedMoveChangesNothing ==
    \A p \in Paths, q \in Paths, e \in TagEdits, f \in {"mkdir", "rename"} :
        LET r == patch_file_result(metadata, snapshot, disk, dirs, Later, p, e[1], e[2], q,
                                   f)
            reached == /\ _file_exists(metadata, p) /\ ~_file_exists(metadata, q)
                       /\ ~TagLimitExceeded(NewTags(get_file_entry(metadata, p).tags,
                                                    e[1], e[2]))
        IN  reached
            => (/\ r.hit
                /\ r.code = "INTERNAL_SERVER_ERROR"
                /\ r.rpath = p
                /\ r.rtags = get_file_entry(metadata, p).tags
                /\ r.metadata = metadata
                /\ r.snapshot = snapshot
                /\ r.disk = disk
                /\ ~_file_exists(r.metadata, q))

\* a PatchFile of "a.txt" to "d/b.txt" was answered InternalError after the parent
\* directory was made: record and file are at "a.txt", nothing is at "d/b.txt"
C38_Witness ==
    /\ resp.op = "patch" /\ resp.code = "INTERNAL_SERVER_ERROR"
    /\ resp.filepath = "a.txt" /\ resp.rpath = "a.txt"
    /\ faults = 1
    /\ Keys(metadata) = {"a.txt"} /\ snapshot = Serialize(metadata)
    /\ DOMAIN disk = {"a.txt"}
    /\ dirs = {"d"}

\* C39: in every state reached through the index calls PutFile, PatchFile and
\* DeleteFile make, every key of the mapping is the filepath of its record, so no two
\* records have one path; and a PatchFile never replaces the record of another path:
\* after any PatchFile every other record is in the mapping as it was.
C39_KeysAreRecordPaths ==
    /\ \A i \in 1..Len(metadata) : metadata[i].key = metadata[i].val.filepath
    /\ \A i \in 1..Len(metadata), j \in 1..Len(metadata) :
          metadata[i].val.filepath = metadata[j].val.filepath => i = j
    /\ \A p \in Paths, q \in Paths \cup {NoPath}, e \in TagEdits, f \in PatchFails :
          LET r == patch_file_result(metadata, snapshot, disk, dirs, Later, p, e[1], e[2],
                                     q, f)
          IN  \A k \in Keys(metadata) \ {p} :
                  /\ _file_exists(r.metadata, k)
                  /\ get_file_entry(r.metadata, k) = get_file_entry(metadata, k)

\* a PatchFile that names the path of another record as its new path was answered
\* Conflict, and both records are in the mapping under their own paths
C39_Witness ==
    /\ resp.op = "patch" /\ resp.code = "CONFLICT"
    /\ Keys(metadata) = Paths
    /\ \A k \in Paths : get_file_entry(metadata, k).filepath = k
    /\ \E k \in Paths : get_file_entry(metadata, k).tags # {}

---------------------------------------------------------------------------
(* LockSpec: two threads call the operations of one MetadataManager again   *)
(* and again. Every operation that takes self._lock does so in a "with"     *)
(* block: the lock is an RLock, owned by a thread and counted, taken at the *)
(* head of the block and given back when the block is left, by a return or  *)
(* by an exception. A save may raise at any call.                           *)

LockOps == {"add", "delete", "update", "get", "list"}

\* the one path the calls name
LockPaths == {"a.txt"}

NoLock == [owner |-> NoThread, depth |-> 0]

\* RLock.acquire by a thread that finds the lock free or owns it already
Enter(lock, t) == [owner |-> t, depth |-> lock.depth + 1]

\* RLock.release: the lock is free again when the outermost block is left
Leave(lock, t) ==
    IF lock.depth = 1 THEN NoLock ELSE [owner |-> t, depth |-> lock.depth - 1]

\* Variant of the with block that keeps the lock when the block is left by an exception.
LeaveRaising_Held(lock, t) == lock

\* "with self._lock:" left by an exception: __exit__ releases as on a return
LeaveRaising(lock, t) == Leave(lock, t)

LockInit ==
    /\ metadata = <<>>
    /\ snapshot = Serialize(metadata)
    /\ tmpfile = NoFile
    /\ disk = EmptyDisk
    /\ dirs = {}
    /\ clock = 0
    /\ resp = [t \in Writers |-> [op |-> "none", error |-> "none"]]
    /\ faults = 0
    /\ pc = [t \in Writers |-> "idle"]
    /\ call = [lock |-> NoLock, req |-> [t \in Writers |-> [op |-> "none", filepath |-> NoPath]]]

\* the operation of t returns (error = "none") or raises: the with block is left
LockExit(t, error) ==
    /\ pc' = [pc EXCEPT ![t] = "idle"]
    /\ resp' = [resp EXCEPT ![t] = [op |-> "index", error |-> error]]
    /\ call' = [call EXCEPT !.lock = IF error = "none" THEN Leave(@, t)
                                     ELSE LeaveRaising(@, t),
                            !.req[t] = [op |-> "none", filepath |-> NoPath]]

\* a thread calls an operation of the index
LockCall(t, op, filepath) ==
    /\ pc[t] = "idle"
    /\ pc' = [pc EXCEPT ![t] = "lock"]
    /\ call' = [call EXCEPT !.req[t] = [op |-> op, filepath |-> filepath]]
    /\ UNCHANGED <<metadata, snapshot, tmpfile, disk, dirs, clock, resp, faults>>

\* with self._lock: the thread waits until the lock is free or its own
LockEnter(t) ==
    /\ pc[t] = "lock"
    /\ LockFree(call.lock.owner, t)
    /\ call' = [call EXCEPT !.lock = Enter(@, t)]
    /\ pc' = [pc EXCEPT ![t] = "body"]
    /\ UNCHANGED <<metadata, snapshot, tmpfile, disk, dirs, clock, resp, faults>>

\* the body of the with block up to the save: get_file_entry and list_files return,
\* the mutating operations raise at their key test or change the mapping
LockBody(t) ==
    /\ pc[t] = "body"
    /\ LET op == call.req[t].op
           p == call.req[t].filepath
       IN  IF op \in {"get", "list"}
           THEN LockExit(t, "none") /\ UNCHANGED metadata
           ELSE IF op = "add" /\ _file_exists(metadata, p)
           THEN LockExit(t, "ValueError") /\ UNCHANGED metadata
           ELSE IF op # "add" /\ ~_file_exists(metadata, p)
           THEN LockExit(t, "KeyError") /\ UNCHANGED metadata
           ELSE /\ metadata' =
                      IF op = "add"
                      THEN AddEntry(metadata,
                                    new_current_instance(p, "text/plain", 1, {}, clock))
                      ELSE IF op = "delete" THEN DeleteEntry(metadata, p)
                      ELSE UpdateEntry(metadata, p, [tags |-> {"x"}, filepath |-> NoPath],
                                       clock)
                /\ pc' = [pc EXCEPT ![t] = "save"]
                /\ UNCHANGED <<resp, call>>
    /\ UNCHANGED <<snapshot, tmpfile, disk, dirs, clock, faults>>

\* self._save_metadata_atomic() inside the with block, returning or raising
LockSave(t, sfail) ==
    /\ pc[t] = "save"
    /\ LET s == _save_metadata_atomic(metadata, snapshot, sfail)
       IN  /\ snapshot' = s.snapshot
           /\ LockExit(t, IF s.raised THEN "OSError" ELSE "none")
    /\ UNCHANGED <<metadata, tmpfile, disk, dirs, clock, faults>>

LockStep(t) ==
    \/ \E op \in LockOps, p \in LockPaths : LockCall(t, op, p)
    \/ LockEnter(t)
    \/ LockBody(t)
    \/ \E sf \in SaveFails : LockSave(t, sf)

LockNext == \E t \in Writers : LockStep(t)

LockSpec == LockInit /\ [][LockNext]_vars

\* Fair scheduling: a thread that can take a step takes one, and a thread waiting
\* for a lock that is free again and again gets it.
LockFairSpec ==
    LockSpec /\ \A t \in Writers : WF_vars(LockStep(t)) /\ SF_vars(LockEnter(t))

\* C40: every index operation that takes the lock gives it back on every way out,
\* a raise included, and no operation takes it a second time while it holds it: the
\* lock is owned exactly by a thread inside a with block; under fair scheduling a
\* thread waiting for the lock gets it, and every call that waits or runs returns
\* (no deadlock).
C40_LockReleasedOnEveryExit ==
    /\ [](/\ \A t \in Writers : (call.lock.owner = t) <=> (pc[t] \in {"body", "save"})
          /\ call.lock.depth = (IF call.lock.owner = NoThread THEN 0 ELSE 1))
    /\ \A t \in Writers : (pc[t] = "lock") ~> (call.lock.owner = t)
    /\ \A t \in Writers : (pc[t] # "idle") ~> (pc[t] = "idle")

\* an operation raised (its key test failed or its save failed) and the lock is free
\* while the other thread waits for it
C40_Witness ==
    \E t \in Writers, w \in Writers :
        /\ t # w
        /\ pc[t] = "idle" /\ resp[t].error # "none"
        /\ pc[w] = "lock"
        /\ call.lock = NoLock

====
